---- MODULE Spec2Model ----
(***************************************************************************)
(* The actor pipeline of buyTheBoop: the message envelope                  *)
(* (messaging/message.rs), the stage runtime Processor::start and the      *)
(* chain builder ActorChain (messaging/processor.rs), the id and time      *)
(* providers (tools/uuid.rs, tools/time.rs) and the source stream of the   *)
(* simulated exchange (exchange/simulation.rs); and, each on its own, the  *)
(* actors SlidingAverage (strategy/sliding_average.rs), SimpleCrossover    *)
(* (strategy/simple_crossover.rs) and Trader (exchange/trade.rs) with the  *)
(* MockExchange (exchange/mod.rs) and the ExchangeSimulation.              *)
(*                                                                         *)
(* Channels are crossbeam unbounded channels: a FIFO sequence, a set of    *)
(* channels whose Sender is still alive and a set whose Receiver is still  *)
(* alive.  recv fails only on an empty channel without sender; send fails  *)
(* on a channel without receiver.  Both failures hit expect("open          *)
(* channel"), which panics the stage's task.                               *)
(***************************************************************************)
EXTENDS Integers, Sequences, FiniteSets, TLC

VARIABLES
    phase,                      \* "build": ActorChain under construction; "run": after start
    processors,                 \* ActorChain.processors, each with its task's position
    id_provider,                \* ActorChain.id_provider
    time_provider,              \* ActorChain.time_provider
    previous_receiver_channel,  \* ActorChain.previous_receiver_channel (a channel number)
    receiver_channel,           \* ActorChain.receiver_channel
    sender_channel,             \* ActorChain.sender_channel
    chan,                       \* the content of every channel
    senders,                    \* channels whose Sender is alive
    receivers,                  \* channels whose Receiver is alive
    src,                        \* what the source has still to send
    sent,                       \* what the source has sent
    fresh,                      \* number of Uuid::new_v4 values drawn so far
    clock,                      \* number of SystemTime readings so far
    minted,                     \* number of envelopes the stages created so far
    tail,                       \* the channel whose receiver start returned
    out,                        \* what the consumer of the tail receiver has observed
    received,                   \* per stage: the envelopes it received, in order
    acted,                      \* per stage: the calls of act, in order
    emitted,                    \* per stage: the envelopes it sent, in order
    crossover,                  \* a SimpleCrossover (strategy/simple_crossover.rs)
    sliding,                    \* a SlidingAverage (strategy/sliding_average.rs)
    exchange,                   \* an Exchange: MockExchange or ExchangeSimulation
    calls                       \* the calls made on the actor or exchange, in order

actorVars == <<crossover, sliding, exchange, calls>>

pipelineVars == <<phase, processors, id_provider, time_provider,
                  previous_receiver_channel, receiver_channel, sender_channel, chan,
                  senders, receivers, src, sent, fresh, clock, minted, tail, out,
                  received, acted, emitted>>

vars == <<pipelineVars, actorVars>>

chainVars == <<id_provider, time_provider, previous_receiver_channel,
               receiver_channel, sender_channel>>

(***************************************************************************)
(* Bounds of the model.                                                    *)
(***************************************************************************)
MaxSrc == 2
MaxStages == 2
MaxNew == 4
MaxCalls == 4
MaxPrice == 2
MaxOrders == 2
MaxLive == 3
MaxTime == 3

(***************************************************************************)
(* messaging/message.rs                                                    *)
(***************************************************************************)
Shutdown == [type |-> "Shutdown"]
Buy == [type |-> "Buy"]
Sell == [type |-> "Sell"]
LivePriceUpdated(datetime, price) ==
    [type |-> "LivePriceUpdated", pair_id |-> "BTC/USDT",
     datetime |-> datetime, price |-> price]

\* #[derive(Default)] of MsgMetaData: the nil uuid and zeroes
DefaultMetaData ==
    [id |-> 0, correlation_time |-> 0, creation_time |-> 0,
     correlation_id |-> 0, correlation_price |-> 0, causation_id |-> 0]

with_data(data) == [data |-> data, metadata |-> DefaultMetaData]

(***************************************************************************)
(* tools/uuid.rs and tools/time.rs.  A provider is its kind and, for the   *)
(* counting mocks, its counter.  Uuid::new_v4 is modelled as the next      *)
(* value nobody has drawn yet, written as a negative number so that it     *)
(* differs from the nil uuid 0 and from Uuid::from_u128(counter).          *)
(* SystemTime::now is modelled as the number of readings taken so far.     *)
(***************************************************************************)
MockUuidProvider == [kind |-> "mock", counter |-> 0]
UuidProvider == [kind |-> "uuid", counter |-> 0]
MockTimeProvider == [kind |-> "mock", counter |-> 0]
TimeProviderImpl == [kind |-> "system", counter |-> 0]

\* IdProvider::new_random: the value returned, given how many v4 uuids were drawn
new_random(p, drawn) ==
    IF p.kind = "mock" THEN p.counter ELSE 0 - (drawn + 1)

\* mutant: the counter is not advanced
after_new_random_stuck(p, n) == p

\* the provider after n calls of new_random (self.counter += 1)
after_new_random(p, n) ==
    IF p.kind = "mock" THEN [p EXCEPT !.counter = @ + n] ELSE p

\* TimeProvider::now: the value returned, given how many clock readings were taken
now(p, readings) ==
    IF p.kind = "mock" THEN p.counter ELSE readings

\* the provider after n calls of now
after_now(p, n) ==
    IF p.kind = "mock" THEN [p EXCEPT !.counter = @ + n] ELSE p

(***************************************************************************)
(* The source.  Either a test, which sends Msg::with_data envelopes into   *)
(* the source channel and runs the chain with the mock providers, or       *)
(* run_simulation, which sends the event stream of                         *)
(* ExchangeSimulation::new_from_file and runs the chain with the           *)
(* production providers: one self-rooted LivePriceUpdated per candle, then *)
(* one Shutdown with default metadata.  Candle k has time k and close k.   *)
(***************************************************************************)
TestEnvelopes == {with_data(Sell), with_data(Shutdown)}

SeqsUpTo(S, n) == UNION {[1..k -> S] : k \in 0..n}

CandleEvent(k) ==
    [data |-> LivePriceUpdated(k, k),
     metadata |-> [id |-> 0 - k, correlation_id |-> 0 - k, causation_id |-> 0 - k,
                   creation_time |-> k - 1, correlation_time |-> k,
                   correlation_price |-> k]]

new_from_file(candles) ==
    [k \in 1..(candles + 1) |->
        IF k <= candles THEN CandleEvent(k) ELSE with_data(Shutdown)]

Candles(m) == Len(SelectSeq(m, LAMBDA e : e.data.type = "LivePriceUpdated"))

(***************************************************************************)
(* messaging/processor.rs: Processor                                       *)
(***************************************************************************)
\* mutant: the loop does not look for the Shutdown
IsShutdownNever(e) == FALSE

\* if let MsgData::Shutdown = &e.data
IsShutdown(e) == e.data = Shutdown

\* mutant: causation_id copied from the input's causation_id
NewMsgCausedByCause(msg, e, id, created) ==
    [data |-> msg,
     metadata |-> [DefaultMetaData EXCEPT
                      !.id = id,
                      !.creation_time = created,
                      !.correlation_id = e.metadata.correlation_id,
                      !.causation_id = e.metadata.causation_id]]

\* mutant: correlation_id set to the id of the input
NewMsgCorrelatedToInput(msg, e, id, created) ==
    [data |-> msg,
     metadata |-> [DefaultMetaData EXCEPT
                      !.id = id,
                      !.creation_time = created,
                      !.correlation_id = e.metadata.id,
                      !.causation_id = e.metadata.id]]

\* the struct literal of the map closure in Processor::start: the fields it
\* names; the two fields of MsgMetaData it does not name keep their defaults
NewMsg(msg, e, id, created) ==
    [data |-> msg,
     metadata |-> [DefaultMetaData EXCEPT
                      !.id = id,
                      !.creation_time = created,
                      !.correlation_id = e.metadata.correlation_id,
                      !.causation_id = e.metadata.id]]

\* .into_iter().map(..).collect(): payload j takes the j-th id and time drawn
NewMsgs(payloads, e, idp, tp, drawn, readings) ==
    [j \in 1..Len(payloads) |->
        NewMsg(payloads[j], e,
               new_random(after_new_random(idp, j - 1), drawn + (j - 1)),
               now(after_now(tp, j - 1), readings + (j - 1)))]

\* mutant: the input is passed on only along with new envelopes
OutgoingOnlyWithNew(is_filter, e, msgs) ==
    IF ~is_filter /\ msgs # <<>> THEN <<e>> \o msgs ELSE msgs

\* mutant: the input is passed on whatever is_filter says
OutgoingIgnoringFilter(is_filter, e, msgs) == <<e>> \o msgs

\* mutant: the input is pushed after the new envelopes
OutgoingInputLast(is_filter, e, msgs) ==
    IF ~is_filter THEN msgs \o <<e>> ELSE msgs

\* if !self.is_filter { msgs.insert(0, e) }
Outgoing(is_filter, e, msgs) ==
    IF ~is_filter THEN <<e>> \o msgs ELSE msgs

\* bookkeeping of the model: an envelope to send, with the number of the input
\* it derives from and its place (0: the input itself, j: payload j of act)
TagInput(e, n) == [msg |-> e, cause |-> n, k |-> 0]
TagNew(msgs, n) == [j \in 1..Len(msgs) |-> [msg |-> msgs[j], cause |-> n, k |-> j]]

\* what Actor::act may return with Ok: the payload lists of the model
ActResults == {<<>>, <<Buy, Sell>>}

NewProcessor(input, output, is_filter, idp, tp) ==
    [input |-> input, output |-> output, is_filter |-> is_filter,
     id_provider |-> idp, time_provider |-> tp, pc |-> "recv", msgs |-> <<>>]

\* mutant: the next envelope is taken while envelopes are still to be sent
AtRecvOrSending(p) == p.pc \in {"recv", "send"}

\* the loop is at recv and may take the next envelope
AtRecv(p) == p.pc = "recv"

Stages == 1..Len(processors)

\* a task that ends (return, error or panic) drops its Processor: the
\* Receiver of its input and the Sender of its output go with it
Ended(p, how) == [p EXCEPT !.pc = how, !.msgs = <<>>]

\* mutant: the handle stays alive
dropNothing(handles, c) == handles

\* the handles that are left when the one of channel c is dropped
drop(handles, c) == handles \ {c}

(***************************************************************************)
(* Init: ActorChain::new over the source channel 0.  new creates channel 1.*)
(***************************************************************************)
NoActor ==
    /\ crossover = <<>>
    /\ sliding = <<>>
    /\ exchange = <<>>
    /\ calls = <<>>

Init ==
    /\ NoActor
    /\ phase = "build"
    /\ processors = <<>>
    /\ \/ /\ id_provider = MockUuidProvider
          /\ time_provider = MockTimeProvider
          /\ src \in SeqsUpTo(TestEnvelopes, MaxSrc)
       \/ /\ id_provider = UuidProvider
          /\ time_provider = TimeProviderImpl
          /\ \E candles \in 0..(MaxSrc - 1) : src = new_from_file(candles)
    /\ fresh = Candles(src)
    /\ clock = Candles(src)
    /\ previous_receiver_channel = 0
    /\ receiver_channel = 1
    /\ sender_channel = 1
    /\ chan = [c \in 0..(MaxStages + 1) |-> <<>>]
    /\ senders = {0, 1}
    /\ receivers = {0, 1}
    /\ sent = <<>>
    /\ minted = 0
    /\ tail = 0
    /\ out = <<>>
    /\ received = <<>>
    /\ acted = <<>>
    /\ emitted = <<>>

(***************************************************************************)
(* ActorChain::add: the stage reads the trailing receiver and writes the   *)
(* spare sender; a new channel becomes the spare one.  is_filter is false. *)
(***************************************************************************)
add ==
    /\ phase = "build"
    /\ Len(processors) < MaxStages
    /\ LET c == receiver_channel + 1
       IN  /\ processors' = Append(processors,
                   NewProcessor(previous_receiver_channel, sender_channel, FALSE,
                                id_provider, time_provider))
           /\ sender_channel' = c
           /\ previous_receiver_channel' = receiver_channel
           /\ receiver_channel' = c
           /\ senders' = senders \cup {c}
           /\ receivers' = receivers \cup {c}
    /\ received' = Append(received, <<>>)
    /\ acted' = Append(acted, <<>>)
    /\ emitted' = Append(emitted, <<>>)
    /\ UNCHANGED <<actorVars, phase, id_provider, time_provider, chan, src, sent, fresh, clock,
                   minted, tail, out>>

\* mutant: start returns the spare receiver instead of the trailing one
start_returning_spare ==
    /\ phase = "build"
    /\ phase' = "run"
    /\ tail' = receiver_channel
    /\ senders' = drop(senders, sender_channel)
    /\ receivers' = drop(receivers, previous_receiver_channel)
    /\ UNCHANGED <<actorVars, processors, chainVars, chan, src, sent, fresh, clock, minted, out,
                   received, acted, emitted>>

(***************************************************************************)
(* ActorChain::start: every processor becomes a task; the trailing         *)
(* receiver is returned; the spare channel is dropped with the chain.      *)
(***************************************************************************)
start ==
    /\ phase = "build"
    /\ phase' = "run"
    /\ tail' = previous_receiver_channel
    /\ senders' = drop(senders, sender_channel)
    /\ receivers' = drop(receivers, receiver_channel)
    /\ UNCHANGED <<actorVars, processors, chainVars, chan, src, sent, fresh, clock, minted, out,
                   received, acted, emitted>>

(***************************************************************************)
(* new_processor(is_filter) of the tests: one Processor built directly,    *)
(* between an input and an output channel, with fresh mock providers, and  *)
(* started.                                                                *)
(***************************************************************************)
new_processor ==
    /\ phase = "build"
    /\ processors = <<>>
    /\ id_provider = MockUuidProvider
    /\ \E is_filter \in BOOLEAN :
          processors' = <<NewProcessor(0, 1, is_filter, MockUuidProvider,
                                       MockTimeProvider)>>
    /\ phase' = "run"
    /\ tail' = 1
    /\ received' = <<(<<>>)>>
    /\ acted' = <<(<<>>)>>
    /\ emitted' = <<(<<>>)>>
    /\ UNCHANGED <<actorVars, chainVars, chan, senders, receivers, src, sent, fresh, clock,
                   minted, out>>

(***************************************************************************)
(* The source: sender.send(event) for each event, then the sender is       *)
(* dropped (run_simulation returns; a test ends).                          *)
(***************************************************************************)
SourceSend ==
    /\ src # <<>>
    /\ 0 \in senders
    /\ 0 \in receivers
    /\ chan' = [chan EXCEPT ![0] = Append(@, Head(src))]
    /\ sent' = Append(sent, Head(src))
    /\ src' = Tail(src)
    /\ UNCHANGED <<actorVars, phase, processors, chainVars, senders, receivers, fresh, clock,
                   minted, tail, out, received, acted, emitted>>

SourceDrop ==
    /\ src = <<>>
    /\ 0 \in senders
    /\ senders' = drop(senders, 0)
    /\ UNCHANGED <<actorVars, phase, processors, chainVars, chan, receivers, src, sent, fresh,
                   clock, minted, tail, out, received, acted, emitted>>

(***************************************************************************)
(* Processor::start, one iteration of the loop in steps:                   *)
(*   recv of a Shutdown; recv of another envelope and act on it, with Ok   *)
(*   or with Err; recv on an empty channel without sender; one send of     *)
(*   the for loop (or of the Shutdown); a send without receiver.           *)
(***************************************************************************)
RecvShutdown(i) ==
    LET p == processors[i]
        e == Head(chan[p.input])
    IN  /\ phase = "run"
        /\ AtRecv(p)
        /\ chan[p.input] # <<>>
        /\ IsShutdown(e)
        /\ chan' = [chan EXCEPT ![p.input] = Tail(@)]
        /\ received' = [received EXCEPT ![i] = Append(@, e)]
        /\ processors' = [processors EXCEPT
               ![i] = [p EXCEPT !.pc = "shutdown",
                                !.msgs = <<TagInput(e, Len(received[i]) + 1)>>]]
        /\ UNCHANGED <<actorVars, phase, chainVars, senders, receivers, src, sent, fresh, clock,
                       minted, tail, out, acted, emitted>>

\* recv of an envelope other than Shutdown on which act returns Ok(payloads)
ActOk(i, payloads) ==
    LET p == processors[i]
        e == Head(chan[p.input])
        n == Len(received[i]) + 1
    IN  /\ phase = "run"
        /\ AtRecv(p)
        /\ chan[p.input] # <<>>
        /\ ~IsShutdown(e)
        /\    LET created == Len(payloads)
                  msgs == NewMsgs(payloads, e, p.id_provider, p.time_provider,
                                  fresh, clock)
                  todo == Outgoing(p.is_filter, TagInput(e, n), TagNew(msgs, n))
              IN  /\ minted' = minted + created
                  /\ acted' = [acted EXCEPT
                         ![i] = Append(@, [on |-> n, ok |-> TRUE, payloads |-> payloads])]
                  /\ fresh' = IF p.id_provider.kind = "mock" THEN fresh
                              ELSE fresh + created
                  /\ clock' = IF p.time_provider.kind = "mock" THEN clock
                              ELSE clock + created
                  /\ processors' = [processors EXCEPT
                         ![i] = [p EXCEPT
                            !.id_provider = after_new_random(@, created),
                            !.time_provider = after_now(@, created),
                            !.msgs = todo,
                            !.pc = IF todo = <<>> THEN "recv" ELSE "send"]]
        /\ chan' = [chan EXCEPT ![p.input] = Tail(@)]
        /\ received' = [received EXCEPT ![i] = Append(@, e)]
        /\ UNCHANGED <<phase, chainVars, senders, receivers, src, sent, tail, out,
                       emitted>>

\* an actor of the tests: act returns any of the payload lists of the model
Act(i) ==
    /\ \E payloads \in ActResults :
          /\ minted + Len(payloads) <= MaxNew
          /\ ActOk(i, payloads)
    /\ UNCHANGED actorVars

\* act(&e).await? with Err, or a panic inside act: start ends before anything
\* is sent (the task's unwrap panics on the Err)
ActFails(i, how) ==
    LET p == processors[i]
        e == Head(chan[p.input])
        n == Len(received[i]) + 1
    IN  /\ phase = "run"
        /\ AtRecv(p)
        /\ chan[p.input] # <<>>
        /\ ~IsShutdown(e)
        /\ chan' = [chan EXCEPT ![p.input] = Tail(@)]
        /\ received' = [received EXCEPT ![i] = Append(@, e)]
        /\ acted' = [acted EXCEPT ![i] = Append(@, [on |-> n, ok |-> FALSE, payloads |-> <<>>])]
        /\ processors' = [processors EXCEPT ![i] = Ended(p, how)]
        /\ senders' = drop(senders, p.output)
        /\ receivers' = drop(receivers, p.input)
        /\ UNCHANGED <<phase, chainVars, src, sent, fresh, clock, minted, tail, out,
                       emitted>>

ActErr(i) == ActFails(i, "error") /\ UNCHANGED actorVars

\* mutant: a closed input channel ends the loop like a Shutdown
RecvClosedReturns(i) ==
    LET p == processors[i]
    IN  /\ phase = "run"
        /\ AtRecv(p)
        /\ chan[p.input] = <<>>
        /\ p.input \notin senders
        /\ processors' = [processors EXCEPT ![i] = Ended(p, "done")]
        /\ senders' = drop(senders, p.output)
        /\ receivers' = drop(receivers, p.input)
        /\ UNCHANGED <<actorVars, phase, chainVars, chan, src, sent, fresh, clock, minted, tail,
                       out, received, acted, emitted>>

\* recv().expect("open channel") on an empty channel whose sender is gone
RecvClosed(i) ==
    LET p == processors[i]
    IN  /\ phase = "run"
        /\ AtRecv(p)
        /\ chan[p.input] = <<>>
        /\ p.input \notin senders
        /\ processors' = [processors EXCEPT ![i] = Ended(p, "panic")]
        /\ senders' = drop(senders, p.output)
        /\ receivers' = drop(receivers, p.input)
        /\ UNCHANGED <<actorVars, phase, chainVars, chan, src, sent, fresh, clock, minted, tail,
                       out, received, acted, emitted>>

Send(i) ==
    LET p == processors[i]
        m == Head(p.msgs)
        last == Len(p.msgs) = 1
    IN  /\ phase = "run"
        /\ p.pc \in {"send", "shutdown"}
        /\ p.output \in receivers
        /\ chan' = [chan EXCEPT ![p.output] = Append(@, m.msg)]
        /\ emitted' = [emitted EXCEPT ![i] = Append(@, m)]
        /\ \/ /\ ~last
              /\ processors' = [processors EXCEPT ![i] = [p EXCEPT !.msgs = Tail(@)]]
              /\ UNCHANGED <<senders, receivers>>
           \/ /\ last
              /\ p.pc = "send"
              /\ processors' = [processors EXCEPT
                     ![i] = [p EXCEPT !.msgs = <<>>, !.pc = "recv"]]
              /\ UNCHANGED <<senders, receivers>>
           \/ /\ last
              /\ p.pc = "shutdown"
              /\ processors' = [processors EXCEPT ![i] = Ended(p, "done")]
              /\ senders' = drop(senders, p.output)
              /\ receivers' = drop(receivers, p.input)
        /\ UNCHANGED <<actorVars, phase, chainVars, src, sent, fresh, clock, minted, tail, out,
                       received, acted>>

\* send(..).expect("open channel") on a channel whose receiver is gone
SendClosed(i) ==
    LET p == processors[i]
    IN  /\ phase = "run"
        /\ p.pc \in {"send", "shutdown"}
        /\ p.output \notin receivers
        /\ processors' = [processors EXCEPT ![i] = Ended(p, "panic")]
        /\ senders' = drop(senders, p.output)
        /\ receivers' = drop(receivers, p.input)
        /\ UNCHANGED <<actorVars, phase, chainVars, chan, src, sent, fresh, clock, minted, tail,
                       out, received, acted, emitted>>

(***************************************************************************)
(* The consumer of the receiver that start returned.                       *)
(***************************************************************************)
TailRecv ==
    /\ phase = "run"
    /\ chan[tail] # <<>>
    /\ out' = Append(out, Head(chan[tail]))
    /\ chan' = [chan EXCEPT ![tail] = Tail(@)]
    /\ UNCHANGED <<actorVars, phase, processors, chainVars, senders, receivers, src, sent,
                   fresh, clock, minted, tail, received, acted, emitted>>

\* the task of stage i: whatever step of Processor::start it is at
ProcessorTask(i) ==
    /\ i \in Stages
    /\ \/ RecvShutdown(i)
       \/ Act(i)
       \/ ActErr(i)
       \/ RecvClosed(i)
       \/ Send(i)
       \/ SendClosed(i)

Next ==
    \/ add
    \/ start
    \/ new_processor
    \/ SourceSend
    \/ SourceDrop
    \/ \E i \in Stages : RecvShutdown(i)
    \/ \E i \in Stages : Act(i)
    \/ \E i \in Stages : ActErr(i)
    \/ \E i \in Stages : RecvClosed(i)
    \/ \E i \in Stages : Send(i)
    \/ \E i \in Stages : SendClosed(i)
    \/ TailRecv

Spec == Init /\ [][Next]_vars

\* Fairness for the termination property.  The executor keeps running the
\* spawned tasks (task::spawn in ActorChain::start), the source sends all its
\* events and drops its sender when run_simulation returns, and the consumer
\* iterates the returned receiver: as long as one of them can take a step,
\* a step is taken.  Its runs are those whose source stream holds a Shutdown.
InitWithShutdown == Init /\ \E k \in 1..Len(src) : src[k].data = Shutdown

FairSpec == InitWithShutdown /\ [][Next]_vars /\ WF_vars(Next)

(***************************************************************************)
(* The chains of the tests: every stage runs a MockActor, whose act        *)
(* returns Ok(vec![MsgData::Buy]) on every envelope, and the source sends  *)
(* Sell envelopes and then the Shutdown.  In these runs no act fails and   *)
(* no stage meets a closed channel.                                        *)
(***************************************************************************)
MockInit ==
    /\ Init
    /\ id_provider = MockUuidProvider
    /\ \E n \in 0..(MaxSrc - 1) :
          src = [k \in 1..(n + 1) |->
                    IF k <= n THEN with_data(Sell) ELSE with_data(Shutdown)]

MockActor_act_nothing(msg) == <<>>
MockActor_act(msg) == <<Buy>>

MockAct(i) ==
    /\ i \in Stages
    /\ chan[processors[i].input] # <<>>
    /\ ActOk(i, MockActor_act(Head(chan[processors[i].input])))
    /\ UNCHANGED actorVars

MockNext ==
    \/ add
    \/ start
    \/ SourceSend
    \/ SourceDrop
    \/ \E i \in Stages : RecvShutdown(i)
    \/ \E i \in Stages : MockAct(i)
    \/ \E i \in Stages : Send(i)
    \/ TailRecv

MockSpec == MockInit /\ [][MockNext]_vars

(***************************************************************************)
(* strategies/simple_crossover.rs: the legacy Strategy stage.  Its Msg is  *)
(* a bare enum, modelled as an envelope without metadata.  start is a      *)
(* plain function: the caller has sent its messages (and may have dropped  *)
(* its sender, or the receiver of the output, as the test does with `_`)   *)
(* and is inside start until start returns.  LegacyInit is the state at    *)
(* the call of start.                                                      *)
(***************************************************************************)
LegacyMsg(data) == [data |-> data]

LegacyMsgs == {LegacyMsg(Shutdown), LegacyMsg(LivePriceUpdated(0, 1))}

\* new_strategy(is_filter): a Strategy between channel 0 and channel 1
LegacyInit ==
    /\ NoActor
    /\ phase = "run"
    /\ \E is_filter \in BOOLEAN :
          processors = <<NewProcessor(0, 1, is_filter, MockUuidProvider,
                                      MockTimeProvider)>>
    /\ id_provider = MockUuidProvider
    /\ time_provider = MockTimeProvider
    /\ previous_receiver_channel = 0
    /\ receiver_channel = 1
    /\ sender_channel = 1
    /\ \E m \in SeqsUpTo(LegacyMsgs, MaxSrc) :
          /\ sent = m
          /\ chan = [c \in 0..(MaxStages + 1) |-> IF c = 0 THEN m ELSE <<>>]
    /\ senders \in {{0, 1}, {1}}
    /\ receivers \in {{0, 1}, {0}}
    /\ src = <<>>
    /\ fresh = 0
    /\ clock = 0
    /\ minted = 0
    /\ tail = 1
    /\ out = <<>>
    /\ received = <<(<<>>)>>
    /\ acted = <<(<<>>)>>
    /\ emitted = <<(<<>>)>>

\* Strategy::start: recv, a match whose arms all do nothing, and the send of
\* the message received unless is_filter; then the next turn of the loop
Strategy_recv(i) ==
    LET p == processors[i]
        e == Head(chan[p.input])
    IN  /\ phase = "run"
        /\ AtRecv(p)
        /\ chan[p.input] # <<>>
        /\ chan' = [chan EXCEPT ![p.input] = Tail(@)]
        /\ received' = [received EXCEPT ![i] = Append(@, e)]
        /\ processors' = [processors EXCEPT
              ![i] = IF p.is_filter THEN p
                     ELSE [p EXCEPT !.pc = "send",
                                    !.msgs = <<TagInput(e, Len(received[i]) + 1)>>]]
        /\ UNCHANGED <<actorVars, phase, chainVars, senders, receivers, src, sent,
                       fresh, clock, minted, tail, out, acted, emitted>>

LegacyNext ==
    \/ Strategy_recv(1)
    \/ Send(1)
    \/ SendClosed(1)
    \/ RecvClosed(1)

LegacySpec == LegacyInit /\ [][LegacyNext]_vars

(***************************************************************************)
(* The actors and the exchange on their own: each specification below      *)
(* drives one of them with a sequence of calls and leaves the pipeline     *)
(* unbuilt.                                                                *)
(***************************************************************************)
NoPipeline ==
    /\ phase = "none"
    /\ processors = <<>>
    /\ id_provider = MockUuidProvider
    /\ time_provider = MockTimeProvider
    /\ previous_receiver_channel = 0
    /\ receiver_channel = 0
    /\ sender_channel = 0
    /\ chan = <<>>
    /\ senders = {}
    /\ receivers = {}
    /\ src = <<>>
    /\ sent = <<>>
    /\ fresh = 0
    /\ clock = 0
    /\ minted = 0
    /\ tail = 0
    /\ out = <<>>
    /\ received = <<>>
    /\ acted = <<>>
    /\ emitted = <<>>

(***************************************************************************)
(* f64 prices and amounts, as exact fractions n/d in lowest terms, d > 0.  *)
(* The rounding of f64 is not modelled.                                    *)
(***************************************************************************)
Abs(x) == IF x < 0 THEN 0 - x ELSE x

RECURSIVE Gcd(_, _)
Gcd(a, b) == IF b = 0 THEN a ELSE Gcd(b, a % b)

F64(n, d) ==
    LET g == Gcd(Abs(n), Abs(d))
        sgn == IF d < 0 THEN 0 - 1 ELSE 1
    IN  [n |-> sgn * (n \div g), d |-> sgn * (d \div g)]

Num(k) == F64(k, 1)

FAdd(x, y) == F64(x.n * y.d + y.n * x.d, x.d * y.d)
FSub(x, y) == F64(x.n * y.d - y.n * x.d, x.d * y.d)
FMul(x, y) == F64(x.n * y.n, x.d * y.d)
FDiv(x, y) == F64(x.n * y.d, x.d * y.n)
FLt(x, y) == x.n * y.d < y.n * x.d
FGt(x, y) == FLt(y, x)

Option(S) == {<<>>} \cup {<<x>> : x \in S}
is_none(o) == Len(o) = 0
is_some(o) == Len(o) = 1

AveragePriceUpdated(pair_id, datetime, price) ==
    [type |-> "AveragePriceUpdated", pair_id |-> pair_id, datetime |-> datetime,
     price |-> price]

(***************************************************************************)
(* strategy/simple_crossover.rs                                            *)
(***************************************************************************)
SimpleCrossover_new(offset) ==
    [offset |-> offset, latest_average |-> <<>>, latest_live |-> <<>>]

upper_without_offset(avg, offset) == avg
upper(avg, offset) == FMul(avg, FAdd(Num(1), offset))

lower(avg, offset) == FMul(avg, FSub(Num(1), offset))

\* self.latest_live.is_none() || self.latest_live < Some(bound)
unset_or_any(latest_live, bound) == TRUE
unset_or_below(latest_live, bound) ==
    is_none(latest_live) \/ FLt(latest_live[1], bound)

unset_or_above(latest_live, bound) ==
    is_none(latest_live) \/ FGt(latest_live[1], bound)

\* mutant: a price inside the band ends the stream
decide_or_shutdown(self, avg, price) ==
    IF /\ FGt(price, upper(avg, self.offset))
       /\ unset_or_below(self.latest_live, upper(avg, self.offset))
    THEN <<Buy>>
    ELSE IF /\ FLt(price, lower(avg, self.offset))
            /\ unset_or_above(self.latest_live, lower(avg, self.offset))
         THEN <<Sell>>
         ELSE <<Shutdown>>

decide(self, avg, price) ==
    IF /\ FGt(price, upper(avg, self.offset))
       /\ unset_or_below(self.latest_live, upper(avg, self.offset))
    THEN <<Buy>>
    ELSE IF /\ FLt(price, lower(avg, self.offset))
            /\ unset_or_above(self.latest_live, lower(avg, self.offset))
         THEN <<Sell>>
         ELSE <<>>

\* if self.latest_average.is_some() { self.latest_live = Some(e.price) }
store_live_always(self, price) == [self EXCEPT !.latest_live = <<price>>]
store_live(self, price) ==
    IF is_some(self.latest_average)
    THEN [self EXCEPT !.latest_live = <<price>>]
    ELSE self

\* self.latest_average = Some(e.price)
store_average_forgetting_live(self, price) ==
    [self EXCEPT !.latest_average = <<price>>, !.latest_live = <<>>]
store_average(self, price) == [self EXCEPT !.latest_average = <<price>>]

\* SimpleCrossover::act: the payloads returned and the actor afterwards.
SimpleCrossover_act(self, msg) ==
    IF msg.data.type = "LivePriceUpdated"
    THEN [res |-> IF is_some(self.latest_average)
                  THEN decide(self, self.latest_average[1], msg.data.price)
                  ELSE <<>>,
          self |-> store_live(self, msg.data.price)]
    ELSE IF msg.data.type = "AveragePriceUpdated"
         THEN [res |-> <<>>, self |-> store_average(self, msg.data.price)]
         ELSE [res |-> <<>>, self |-> self]

Prices == {Num(p) : p \in 0..MaxPrice}
Offsets == {Num(0), F64(1, 2)}

CrossoverInputs ==
    {with_data(LivePriceUpdated(0, p)) : p \in Prices}
        \cup {with_data(AveragePriceUpdated("BTC/USDT", 0, p)) : p \in Prices}
        \cup {with_data(Sell)}

CrossoverInit ==
    /\ NoPipeline
    /\ \E offset \in Offsets : crossover = SimpleCrossover_new(offset)
    /\ sliding = <<>>
    /\ exchange = <<>>
    /\ calls = <<>>

CrossoverAct ==
    /\ Len(calls) < MaxCalls
    /\ \E msg \in CrossoverInputs :
        LET r == SimpleCrossover_act(crossover, msg)
        IN  /\ crossover' = r.self
            /\ calls' = Append(calls, [msg |-> msg, before |-> crossover,
                                       res |-> r.res, after |-> r.self])
    /\ UNCHANGED <<pipelineVars, sliding, exchange>>

CrossoverNext == CrossoverAct

CrossoverSpec == CrossoverInit /\ [][CrossoverNext]_vars

(***************************************************************************)
(* Vocabulary of the properties.                                           *)
(***************************************************************************)
Stream == sent \o src

Sentinel(e) == e.data.type = "Shutdown"

EndsInOneShutdown(s) ==
    /\ s # <<>>
    /\ Sentinel(s[Len(s)])
    /\ \A k \in 1..(Len(s) - 1) : ~Sentinel(s[k])

Shutdowns(s) == {k \in 1..Len(s) : Sentinel(s[k])}

Ids(s) == {s[k].metadata.id : k \in 1..Len(s)}

DistinctIds(s) ==
    \A a, b \in 1..Len(s) : a # b => s[a].metadata.id # s[b].metadata.id

Msgs(entries) == [k \in 1..Len(entries) |-> entries[k].msg]

\* what stage i sent for its input number n, and what it created
EmittedFor(i, n) == SelectSeq(emitted[i], LAMBDA x : x.cause = n)
Created(i) == SelectSeq(emitted[i], LAMBDA x : x.k > 0)

\* stage i is through with its input number n: it is back at recv or beyond
Through(i, n) ==
    \/ n < Len(received[i])
    \/ n = Len(received[i]) /\ processors[i].pc \in {"recv", "done"}

ActorFailed == \E i \in Stages : \E a \in 1..Len(acted[i]) : ~acted[i][a].ok

Terminated(i) == processors[i].pc \in {"done", "error", "panic"}

\* the tail receiver is the one ActorChain::start returned
BuiltByChain == phase = "run" /\ tail = previous_receiver_channel

\* every task has ended and the consumer has taken all there is
Finished ==
    /\ phase = "run"
    /\ src = <<>>
    /\ \A i \in Stages : Terminated(i)
    /\ chan[tail] = <<>>

(***************************************************************************)
(* C1.  For a source stream that ends in exactly one Shutdown and a chain  *)
(* built with ActorChain, the consumer of the receiver that start          *)
(* returned observes nothing after a Shutdown and, once every task has     *)
(* ended and the tail is drained, has observed exactly one Shutdown.       *)
(***************************************************************************)
C1_ShutdownExactness ==
    (EndsInOneShutdown(Stream) /\ BuiltByChain) =>
        /\ \A k \in Shutdowns(out) : k = Len(out)
        /\ Finished => Cardinality(Shutdowns(out)) = 1

\* the same, for the runs in which no call of act returned Err
C1_ShutdownExactnessWithoutActorError ==
    ~ActorFailed => C1_ShutdownExactness

(***************************************************************************)
(* C2.  A stage that received a Shutdown received nothing after it, never  *)
(* called act on it, and is forwarding it, has panicked on an output       *)
(* without receiver, or has ended normally; when it has ended normally,    *)
(* the only envelope it sent for it is that envelope, unchanged, as the    *)
(* last one it sent.  This for filter and non-filter stages alike.         *)
(***************************************************************************)
C2_ShutdownForwardedVerbatim ==
    \A i \in Stages : \A n \in Shutdowns(received[i]) :
        LET p == processors[i]
            mine == EmittedFor(i, n)
        IN  /\ n = Len(received[i])
            /\ \A a \in 1..Len(acted[i]) : acted[i][a].on # n
            /\ p.pc \in {"shutdown", "done", "panic"}
            /\ p.pc = "panic" => p.output \notin receivers
            /\ p.pc # "done" => mine = <<>>
            /\ p.pc = "done" =>
                  /\ mine = <<TagInput(received[i][n], n)>>
                  /\ emitted[i][Len(emitted[i])] = mine[1]

C2_Witness ==
    \E i \in Stages :
        /\ processors[i].is_filter
        /\ processors[i].pc = "done"
        /\ Len(received[i]) = 2
        /\ Len(emitted[i]) = 3

(***************************************************************************)
(* C3.  In a stage with is_filter = false, for every input on which act    *)
(* returned a payload list (empty or not), what the stage sends for that   *)
(* input is first the input itself, unchanged, and then one envelope per   *)
(* payload, in the order of the list; when the stage is through with the   *)
(* input, all of them have been sent, so the input appears exactly once.   *)
(***************************************************************************)
C3_PassThroughFirst ==
    \A i \in Stages : \A a \in 1..Len(acted[i]) :
        LET p == processors[i]
            n == acted[i][a].on
            r == acted[i][a].payloads
            mine == EmittedFor(i, n)
        IN  (~p.is_filter /\ acted[i][a].ok) =>
               /\ Len(mine) <= 1 + Len(r)
               /\ \A j \in 1..Len(mine) :
                     /\ mine[j].k = j - 1
                     /\ j = 1 => mine[j].msg = received[i][n]
                     /\ j > 1 => mine[j].msg.data = r[j - 1]
               /\ Through(i, n) => Len(mine) = 1 + Len(r)

C3_Witness ==
    \E i \in Stages :
        /\ ~processors[i].is_filter
        /\ Len(acted[i]) = 2
        /\ acted[i][1].ok /\ acted[i][1].payloads = <<>>
        /\ acted[i][2].ok /\ acted[i][2].payloads = <<Buy, Sell>>
        /\ Through(i, 2)
        /\ Len(emitted[i]) = 4

(***************************************************************************)
(* C4.  In every stage the envelopes are sent in the order of the inputs   *)
(* they derive from, and within one input in the order of Outgoing; the    *)
(* stage has sent everything for an input before it receives the next      *)
(* one; and every channel delivers in the order of the sends: what a       *)
(* stage sent is what the next stage (or the consumer) received followed   *)
(* by what is still in the channel.                                        *)
(***************************************************************************)
C4_OrderPreserved ==
    \A i \in Stages :
        LET p == processors[i]
            next == IF i < Len(processors) THEN received[i + 1] ELSE out
        IN  /\ \A a, b \in 1..Len(emitted[i]) :
                  a < b =>
                     \/ emitted[i][a].cause < emitted[i][b].cause
                     \/ /\ emitted[i][a].cause = emitted[i][b].cause
                        /\ emitted[i][a].k < emitted[i][b].k
            /\ \A m \in 1..Len(p.msgs) : p.msgs[m].cause = Len(received[i])
            /\ \A a \in 1..Len(acted[i]) :
                  (acted[i][a].ok /\ acted[i][a].on < Len(received[i])) =>
                     Len(EmittedFor(i, acted[i][a].on)) =
                        Len(Outgoing(p.is_filter, 0, acted[i][a].payloads))
            /\ Msgs(emitted[i]) = next \o chan[p.output]

C4_Witness ==
    \E i \in Stages :
        /\ Len(emitted[i]) = 4
        /\ emitted[i][3].cause = 1
        /\ emitted[i][4].cause = 2
        /\ i = Len(processors)
        /\ Len(out) = 4

(***************************************************************************)
(* C5.  Every envelope a stage created from a payload of act on input E    *)
(* has causation_id = E.id and correlation_id = E.correlation_id, and its  *)
(* id and creation time are the next values of the stage's own providers:  *)
(* the j-th envelope a stage creates carries the j-th id and the j-th time *)
(* of its counting mocks, or, with the production providers, a v4 uuid     *)
(* that no envelope of the source and no other created envelope of the     *)
(* stage carries and a clock reading later than that of the stage's        *)
(* earlier creations.                                                      *)
(***************************************************************************)
C5_NewMetaData ==
    \A i \in Stages :
        LET c == Created(i)
        IN  \A j \in 1..Len(c) :
               LET m == c[j].msg.metadata
                   e == received[i][c[j].cause]
               IN  /\ m.causation_id = e.metadata.id
                   /\ m.correlation_id = e.metadata.correlation_id
                   /\ id_provider.kind = "mock" =>
                         /\ m.id = j - 1
                         /\ m.creation_time = j - 1
                   /\ id_provider.kind = "uuid" =>
                         /\ m.id < 0
                         /\ m.id \notin Ids(Stream)
                         /\ \A h \in 1..(j - 1) :
                               /\ c[h].msg.metadata.id # m.id
                               /\ c[h].msg.metadata.creation_time < m.creation_time

C5_Witness ==
    /\ id_provider.kind = "uuid"
    /\ Len(processors) = 2
    /\ Len(Created(1)) = 2
    /\ Len(Created(2)) = 2
    /\ Created(2)[1].msg.metadata.causation_id = Created(1)[1].msg.metadata.id
    /\ Created(2)[1].msg.metadata.causation_id
          # Created(2)[1].msg.metadata.correlation_id

(***************************************************************************)
(* C6.  Every envelope a stage sends, passed through or created, carries   *)
(* the correlation_id, correlation_time and correlation_price of the       *)
(* input it derives from.                                                  *)
(***************************************************************************)
C6_CorrelationPropagated ==
    \A i \in Stages : \A x \in 1..Len(emitted[i]) :
        LET m == emitted[i][x].msg.metadata
            e == received[i][emitted[i][x].cause].metadata
        IN  /\ m.correlation_id = e.correlation_id
            /\ m.correlation_time = e.correlation_time
            /\ m.correlation_price = e.correlation_price

\* the part of it the struct literal of Processor::start does provide
C6_CorrelationIdPropagated ==
    \A i \in Stages : \A x \in 1..Len(emitted[i]) :
        emitted[i][x].msg.metadata.correlation_id
           = received[i][emitted[i][x].cause].metadata.correlation_id

(***************************************************************************)
(* C7.  For every envelope E a stage created, the inputs P the stage       *)
(* received up to then with P.id = E.causation_id.                         *)
(***************************************************************************)
Causes(i, x) ==
    {n \in 1..x.cause : received[i][n].metadata.id = x.msg.metadata.causation_id}

\* C7 as claimed: there is exactly one such input, and it has E's
\* correlation_id
C7_ExactlyOneCause ==
    \A i \in Stages : \A j \in 1..Len(Created(i)) :
        LET x == Created(i)[j]
        IN  /\ Cardinality(Causes(i, x)) = 1
            /\ \A n \in Causes(i, x) :
                  received[i][n].metadata.correlation_id
                     = x.msg.metadata.correlation_id

\* C7 as amended: the input act was called on is such an input and has E's
\* correlation_id; it is the only one whenever the inputs the stage
\* received up to then carry pairwise distinct ids
C7_SomeCause ==
    \A i \in Stages : \A j \in 1..Len(Created(i)) :
        LET x == Created(i)[j]
        IN  /\ x.cause \in Causes(i, x)
            /\ received[i][x.cause].metadata.correlation_id
                  = x.msg.metadata.correlation_id
            /\ DistinctIds(SubSeq(received[i], 1, x.cause)) =>
                  Causes(i, x) = {x.cause}

C7_Witness ==
    \E i \in Stages : \E j \in 1..Len(Created(i)) :
        /\ Created(i)[j].cause = 2
        /\ Cardinality(Causes(i, Created(i)[j])) = 2

(***************************************************************************)
(* C8.  A stage whose actor returned Err from act has sent a Shutdown      *)
(* envelope to its output by the time it has terminated.                   *)
(***************************************************************************)
C8_ShutdownOnActorError ==
    \A i \in Stages :
        processors[i].pc = "error" =>
            \E x \in 1..Len(emitted[i]) : Sentinel(emitted[i][x].msg)

(***************************************************************************)
(* C9.  Under fair scheduling, once the chain runs and the source has sent *)
(* a Shutdown, either some actor fails or every stage ends normally and    *)
(* the iteration of the tail receiver ends, a Shutdown having been         *)
(* observed (as the last envelope when the chain has a stage): the tail    *)
(* channel is drained and has no sender left.  And the stages end in chain *)
(* order: a stage that has ended normally has received the Shutdown that   *)
(* the stage before it sent before ending normally.                        *)
(***************************************************************************)
ShutdownSent == phase = "run" /\ Shutdowns(sent) # {}

AllDone == \A i \in Stages : processors[i].pc = "done"

TailEnded ==
    /\ chan[tail] = <<>>
    /\ tail \notin senders
    /\ Shutdowns(out) # {}
    /\ Stages # {} => Sentinel(out[Len(out)])

InChainOrder ==
    \A i \in Stages :
        (i > 1 /\ processors[i].pc = "done") =>
            /\ processors[i - 1].pc = "done"
            /\ Sentinel(emitted[i - 1][Len(emitted[i - 1])].msg)

C9_ShutdownTerminatesChain ==
    /\ []InChainOrder
    /\ ShutdownSent ~> (ActorFailed \/ (AllDone /\ TailEnded))

C9_Witness ==
    /\ Len(processors) = 2
    /\ ~ActorFailed
    /\ AllDone
    /\ TailEnded
    /\ Len(out) = 4

(***************************************************************************)
(* C10.  The ids of the envelopes observed at the tail.                    *)
(***************************************************************************)
\* C10 as claimed: when the envelopes of the source carry pairwise distinct
\* ids, no two envelopes observed at the tail of a chain carry the same id
C10_UniqueIds ==
    (BuiltByChain /\ DistinctIds(Stream)) => DistinctIds(out)

\* C10 as amended: the envelopes one stage creates carry pairwise distinct
\* ids; and with the production provider (v4 uuids) and a source whose
\* envelopes carry pairwise distinct ids, no two envelopes observed at the
\* tail carry the same id
C10_UniqueIdsPerStage ==
    /\ \A i \in Stages : DistinctIds(Msgs(Created(i)))
    /\ (id_provider.kind = "uuid" /\ DistinctIds(Stream)) => DistinctIds(out)

C10_Witness ==
    /\ id_provider.kind = "mock"
    /\ Len(processors) = 2
    /\ Len(Created(1)) = 2
    /\ Len(Created(2)) = 2
    /\ Created(1)[1].msg.metadata.id = Created(2)[1].msg.metadata.id
    /\ Len(out) = 5

(***************************************************************************)
(* exchange/mod.rs: assets, orders and the MockExchange                    *)
(***************************************************************************)
Asset(name, amount) == [name |-> name, amount |-> amount]
Assets(base, quote) == [base |-> base, quote |-> quote]

MarketOrder(correlation_id, base, quote, order_type, amount) ==
    [correlation_id |-> correlation_id, base |-> base, quote |-> quote,
     order_type |-> order_type, amount |-> amount]

Bought(base, quote, amount) ==
    [type |-> "Bought", base |-> base, quote |-> quote, amount |-> amount]
Sold(base, quote, amount) ==
    [type |-> "Sold", base |-> base, quote |-> quote, amount |-> amount]

MockExchange_new(assets) ==
    [kind |-> "MockExchange", assets |-> assets, recorded_orders |-> <<>>]

\* the outcome of place_market_order: Ok(amount) and the exchange afterwards
Placed(self, amount) ==
    [ok |-> TRUE, amount |-> amount, self |-> self, err |-> <<>>]
\* Err(error)
Failed(self, error) ==
    [ok |-> FALSE, amount |-> Num(0), self |-> self, err |-> <<error>>]
\* expect("unknown correlation id") panicked
DefaultAmount(self) == [ok |-> TRUE, amount |-> Num(0), self |-> self, err |-> <<>>]
Panicked(self) == [ok |-> FALSE, amount |-> Num(0), self |-> self, err |-> <<>>]

MockExchange_place_market_order(self, order) ==
    Placed([self EXCEPT !.recorded_orders = Append(@, order)], order.amount)

\* An implementation of the Exchange trait whose calls may return Err (a
\* remote exchange): fetch_error and place_error hold the error, if any, that
\* fetch_assets and place_market_order return.
FaultyExchange_new(assets, fetch_error, place_error) ==
    [kind |-> "FaultyExchange", assets |-> assets, recorded_orders |-> <<>>,
     fetch_error |-> fetch_error, place_error |-> place_error]

FaultyExchange_place_market_order(self, order) ==
    IF is_some(self.place_error)
    THEN Failed(self, self.place_error[1])
    ELSE MockExchange_place_market_order(self, order)

(***************************************************************************)
(* exchange/simulation.rs                                                  *)
(***************************************************************************)
\* prices: for every correlation id of a LivePriceUpdated of the stream, the
\* price of the last such event (HashMap::insert overwrites)
ExchangeSimulation_new(event_stream, assets, options) ==
    LET live == {k \in 1..Len(event_stream) :
                     event_stream[k].data.type = "LivePriceUpdated"}
        ids == {event_stream[k].metadata.correlation_id : k \in live}
        last(id) == CHOOSE k \in live :
                        /\ event_stream[k].metadata.correlation_id = id
                        /\ \A m \in live :
                               event_stream[m].metadata.correlation_id = id => m <= k
    IN  [kind |-> "ExchangeSimulation", event_stream |-> event_stream,
         assets |-> assets,
         prices |-> [id \in ids |-> event_stream[last(id)].data.price],
         options |-> options]

\* order.amount * (1.0 - self.options.fee)
net_without_fee(amount, fee) == amount
net(amount, fee) == FMul(amount, FSub(Num(1), fee))

\* if price > &0.0 { amount / price } else { 0.0 }
bought_by_multiplying(amount, price) == FMul(amount, price)
bought(amount, price) == IF FGt(price, Num(0)) THEN FDiv(amount, price) ELSE Num(0)

sold_by_dividing(amount, price) == IF FGt(price, Num(0)) THEN FDiv(amount, price) ELSE Num(0)
sold(amount, price) == FMul(amount, price)

\* mutant: only the asset received is assigned
ExchangeSimulation_place_market_order_keeping_paid(self, order) ==
    IF order.correlation_id \notin DOMAIN self.prices
    THEN Panicked(self)
    ELSE LET price == self.prices[order.correlation_id]
             amount == net(order.amount, self.options.fee)
         IN  IF order.order_type = "Buy"
             THEN LET a == bought(amount, price)
                  IN  Placed([self EXCEPT !.assets.base = <<Asset("BTC", a)>>], a)
             ELSE LET a == sold(amount, price)
                  IN  Placed([self EXCEPT !.assets.quote = <<Asset("USDT", a)>>], a)

\* mutant: an order for more than the balance held is refused
ExchangeSimulation_place_market_order_within_balance(self, order) ==
    LET held == IF order.order_type = "Buy" THEN self.assets.quote
                ELSE self.assets.base
    IN  IF order.correlation_id \notin DOMAIN self.prices
        THEN Panicked(self)
        ELSE IF is_none(held) \/ FLt(held[1].amount, order.amount)
             THEN Failed(self, "insufficient funds")
             ELSE LET price == self.prices[order.correlation_id]
                      amount == net(order.amount, self.options.fee)
                  IN  IF order.order_type = "Buy"
                      THEN LET a == bought(amount, price)
                           IN  Placed([self EXCEPT !.assets =
                                   Assets(<<Asset("BTC", a)>>,
                                          <<Asset("USDT", Num(0))>>)], a)
                      ELSE LET a == sold(amount, price)
                           IN  Placed([self EXCEPT !.assets =
                                   Assets(<<Asset("BTC", Num(0))>>,
                                          <<Asset("USDT", a)>>)], a)

ExchangeSimulation_place_market_order(self, order) ==
    IF order.correlation_id \notin DOMAIN self.prices
    THEN Panicked(self)
    ELSE LET price == self.prices[order.correlation_id]
             amount == net(order.amount, self.options.fee)
         IN  IF order.order_type = "Buy"
             THEN LET a == bought(amount, price)
                  IN  Placed([self EXCEPT !.assets =
                                  Assets(<<Asset("BTC", a)>>, <<Asset("USDT", Num(0))>>)], a)
             ELSE LET a == sold(amount, price)
                  IN  Placed([self EXCEPT !.assets =
                                  Assets(<<Asset("BTC", Num(0))>>, <<Asset("USDT", a)>>)], a)

\* the Exchange trait, dispatched on the implementation
place_market_order(self, order) ==
    IF self.kind = "MockExchange"
    THEN MockExchange_place_market_order(self, order)
    ELSE IF self.kind = "FaultyExchange"
         THEN FaultyExchange_place_market_order(self, order)
         ELSE ExchangeSimulation_place_market_order(self, order)

fetch_assets(self) == self.assets

\* the error of fetch_assets, if it returns Err
fetch_assets_error(self) ==
    IF self.kind = "FaultyExchange" THEN self.fetch_error ELSE <<>>

(***************************************************************************)
(* exchange/trade.rs                                                       *)
(***************************************************************************)
new_order_without_correlation(asset, order_type, correlation_id) ==
    MarketOrder(0, "BTC", "USDT", order_type, asset.amount)
new_order(asset, order_type, correlation_id) ==
    MarketOrder(correlation_id, "BTC", "USDT", order_type, asset.amount)

\* if let Some(asset) = asset { if asset.amount > 0.0 {
has_any_asset(asset) == is_some(asset)
has_funds(asset) == is_some(asset) /\ FGt(asset[1].amount, Num(0))

\* the outcome of act without any call that changes the exchange: Ok(vec![])
Untouched(exch) ==
    [res |-> <<>>, exchange |-> exch, placed |-> <<>>, returned |-> <<>>,
     panic |-> FALSE, err |-> <<>>]

\* the ? operator on an Err of the exchange: act returns Err(error)
swallowed(exch, placed, error) ==
    [res |-> <<>>, exchange |-> exch, placed |-> placed, returned |-> <<>>,
     panic |-> FALSE, err |-> <<>>]
propagated(exch, placed, error) ==
    [res |-> <<>>, exchange |-> exch, placed |-> placed, returned |-> <<>>,
     panic |-> FALSE, err |-> <<error>>]

\* execute: the payloads, the exchange afterwards, the orders handed to the
\* exchange, whether the call panicked inside the exchange, and the error
\* returned, if any
execute(exch, asset, order_type, correlation_id) ==
    IF has_funds(asset)
    THEN LET order == new_order(asset[1], order_type, correlation_id)
             r == place_market_order(exch, order)
         IN  IF is_some(r.err)
             THEN propagated(r.self, <<order>>, r.err[1])
             ELSE [res |-> IF ~r.ok THEN <<>>
                           ELSE IF order.order_type = "Buy"
                                THEN <<Bought(order.base, order.quote, r.amount)>>
                                ELSE <<Sold(order.base, order.quote, r.amount)>>,
                   exchange |-> r.self, placed |-> <<order>>,
                   returned |-> IF r.ok THEN <<r.amount>> ELSE <<>>,
                   panic |-> ~r.ok, err |-> <<>>]
    ELSE Untouched(exch)

\* the arm of the match: the order type of a Buy or Sell payload, none for
\* every other payload
signal_or_bought(data) ==
    IF data.type \in {"Buy", "Sell"} THEN <<data.type>>
    ELSE IF data.type = "Bought" THEN <<"Buy">> ELSE <<>>
signal(data) == IF data.type \in {"Buy", "Sell"} THEN <<data.type>> ELSE <<>>

\* assets.quote for a Buy, assets.base for a Sell
traded(assets, order_type) ==
    IF order_type = "Buy" THEN assets.quote ELSE assets.base

Trader_act(exch, msg) ==
    IF is_none(signal(msg.data))
    THEN Untouched(exch)
    ELSE IF is_some(fetch_assets_error(exch))
         THEN propagated(exch, <<>>, fetch_assets_error(exch)[1])
         ELSE execute(exch, traded(fetch_assets(exch), signal(msg.data)[1]),
                      signal(msg.data)[1], msg.metadata.correlation_id)

(***************************************************************************)
(* The Trader over an exchange, called as the tests of trade.rs and the    *)
(* last stage of run_simulation call it.                                   *)
(***************************************************************************)
Amounts == {Num(0 - 1), Num(0), Num(MaxPrice)}
AssetOptions(name) == {<<>>} \cup {<<Asset(name, a)>> : a \in Amounts}
Fees == {Num(0), F64(1, 2)}
ExchangeOptions(fee) == [fee |-> fee]

\* a LivePriceUpdated envelope of a simulation's event stream
PriceEvent(correlation_id, price) ==
    [data |-> LivePriceUpdated(0, price),
     metadata |-> [DefaultMetaData EXCEPT !.id = correlation_id,
                                          !.correlation_id = correlation_id,
                                          !.causation_id = correlation_id]]

\* two price events and the terminal Shutdown; the second event's id is
\* its own (0 - 2) or that of the first (0 - 1)
EventStreams(second_ids) ==
    {<<PriceEvent(0 - 1, p1), PriceEvent(id2, p2), with_data(Shutdown)>> :
        p1 \in Prices, p2 \in Prices, id2 \in second_ids}

CorrelationIds == {0 - 1, 0 - 2, 0}

TraderInputs ==
    {[data |-> d, metadata |-> [DefaultMetaData EXCEPT !.correlation_id = c]] :
        d \in {Buy, Sell}, c \in CorrelationIds}
        \cup {with_data(Shutdown), with_data(LivePriceUpdated(0, Num(1))),
              with_data(Bought("BTC", "USDT", Num(1)))}

Errors(name) == {<<>>, <<name>>}

TraderInit ==
    /\ NoPipeline
    /\ crossover = <<>>
    /\ sliding = <<>>
    /\ calls = <<>>
    /\ \/ \E base \in AssetOptions("BTC"), quote \in AssetOptions("USDT") :
              exchange = MockExchange_new(Assets(base, quote))
       \/ \E events \in EventStreams({0 - 2}), quote \in AssetOptions("USDT"),
             fee \in Fees :
              exchange = ExchangeSimulation_new(events, Assets(<<>>, quote),
                                                ExchangeOptions(fee))
       \/ \E base \in AssetOptions("BTC"), quote \in AssetOptions("USDT"),
             fetch_error \in Errors("fetch_assets failed"),
             place_error \in Errors("place_market_order failed") :
              exchange = FaultyExchange_new(Assets(base, quote), fetch_error, place_error)

Crashed == Len(calls) > 0 /\ calls[Len(calls)].panic

\* the assets fetch_assets reports to the caller: none when it returns Err
Reported(exch) ==
    IF is_some(fetch_assets_error(exch)) THEN Assets(<<>>, <<>>) ELSE fetch_assets(exch)

TraderAct ==
    /\ Len(calls) < MaxOrders
    /\ ~Crashed
    /\ \E msg \in TraderInputs :
        LET r == Trader_act(exchange, msg)
        IN  /\ exchange' = r.exchange
            /\ calls' = Append(calls, [msg |-> msg, assets |-> Reported(exchange),
                                       before |-> exchange, after |-> r.exchange,
                                       res |-> r.res, placed |-> r.placed,
                                       returned |-> r.returned, panic |-> r.panic,
                                       err |-> r.err])
    /\ UNCHANGED <<pipelineVars, crossover, sliding>>

TraderNext == TraderAct

TraderSpec == TraderInit /\ [][TraderNext]_vars

(***************************************************************************)
(* The ExchangeSimulation, called directly as its tests call it.           *)
(***************************************************************************)
OrderAmounts == {Num(1), Num(MaxPrice)}

Orders ==
    {MarketOrder(c, "BTC", "USDT", t, a) :
        c \in CorrelationIds, t \in {"Buy", "Sell"}, a \in OrderAmounts}

ExchangeInit ==
    /\ NoPipeline
    /\ crossover = <<>>
    /\ sliding = <<>>
    /\ calls = <<>>
    /\ \E events \in EventStreams({0 - 1, 0 - 2}), fee \in Fees :
          exchange = ExchangeSimulation_new(
                         events, Assets(<<>>, <<Asset("USDT", Num(MaxPrice))>>),
                         ExchangeOptions(fee))

PlaceMarketOrder ==
    /\ Len(calls) < MaxOrders
    /\ ~Crashed
    /\ \E order \in Orders :
        LET r == place_market_order(exchange, order)
        IN  /\ exchange' = r.self
            /\ calls' = Append(calls, [order |-> order, before |-> exchange,
                                       after |-> r.self,
                                       returned |-> IF r.ok THEN <<r.amount>> ELSE <<>>,
                                       assets |-> fetch_assets(r.self),
                                       panic |-> ~r.ok])
    /\ UNCHANGED <<pipelineVars, crossover, sliding>>

ExchangeNext == PlaceMarketOrder

ExchangeSpec == ExchangeInit /\ [][ExchangeNext]_vars

(***************************************************************************)
(* ExchangeSimulation::new_from_file over the candles of a file, and       *)
(* event_stream.  The k-th Uuid::new_v4 is 0 - k; creation_time is the     *)
(* number of clock readings before.                                        *)
(***************************************************************************)
Candle(time, close) == [time |-> time, close |-> close]

candle_event_without_correlation(candle, message_id, creation_time) ==
    [data |-> LivePriceUpdated(candle.time, candle.close),
     metadata |-> [DefaultMetaData EXCEPT !.id = message_id,
                                          !.creation_time = creation_time]]
candle_event(candle, message_id, creation_time) ==
    [data |-> LivePriceUpdated(candle.time, candle.close),
     metadata |-> [id |-> message_id, correlation_id |-> message_id,
                   causation_id |-> message_id, creation_time |-> creation_time,
                   correlation_time |-> candle.time,
                   correlation_price |-> candle.close]]

ExchangeSimulation_new_from_file(candles, starting_quote, options) ==
    ExchangeSimulation_new(
        [k \in 1..Len(candles) |-> candle_event(candles[k], 0 - k, k - 1)]
            \o <<[data |-> Shutdown, metadata |-> DefaultMetaData]>>,
        Assets(<<>>, <<starting_quote>>), options)

\* Box::new(self.event_stream.clone().into_iter())
event_stream_from_second(self) == Tail(self.event_stream)
event_stream(self) == self.event_stream

CandleTimes == {0, MaxTime}
Closes == {Num(1), Num(MaxPrice)}
CandleFiles ==
    UNION {[1..n -> {Candle(t, c) : t \in CandleTimes, c \in Closes}] :
              n \in 0..MaxSrc}

FileInit ==
    /\ NoPipeline
    /\ crossover = <<>>
    /\ sliding = <<>>
    /\ exchange = <<>>
    /\ calls = <<>>

NewFromFile ==
    /\ calls = <<>>
    /\ \E candles \in CandleFiles, fee \in Fees :
          /\ exchange' = ExchangeSimulation_new_from_file(
                             candles, Asset("USDT", Num(MaxPrice)), ExchangeOptions(fee))
          /\ calls' = <<[op |-> "new_from_file", candles |-> candles, panic |-> FALSE]>>
    /\ UNCHANGED <<pipelineVars, crossover, sliding>>

EventStream ==
    /\ calls # <<>>
    /\ Len(calls) <= MaxOrders
    /\ ~Crashed
    /\ calls' = Append(calls, [op |-> "event_stream", stream |-> event_stream(exchange),
                               panic |-> FALSE])
    /\ UNCHANGED <<pipelineVars, crossover, sliding, exchange>>

\* an order placed between two readings of the stream
OrderOnFile ==
    /\ calls # <<>>
    /\ PlaceMarketOrder

FileNext ==
    \/ NewFromFile
    \/ EventStream
    \/ OrderOnFile

FileSpec == FileInit /\ [][FileNext]_vars

(***************************************************************************)
(* strategy/sliding_average.rs                                             *)
(***************************************************************************)
TimePricePoint(datetime, price) == [datetime |-> datetime, price |-> price]

SlidingAverage_new(window_millis) ==
    [window_millis |-> window_millis, events |-> <<>>, active |-> FALSE]

\* i.datetime as i128 >= e.datetime as i128 - self.window_millis as i128
in_window_of_no_width(i, e, window_millis) == i.datetime >= e.datetime
in_window(i, e, window_millis) == i.datetime >= e.datetime - window_millis

retain(events, e, window_millis) ==
    LET keep(i) == in_window(i, e, window_millis)
    IN  SelectSeq(events, keep)

RECURSIVE sum(_)
sum(events) ==
    IF events = <<>> THEN Num(0) ELSE FAdd(events[1].price, sum(Tail(events)))

\* if before_len > self.events.len() { self.active = true }
active_while_dropping(active, before_len, len) == before_len > len
active_after(active, before_len, len) == active \/ before_len > len

SlidingAverage_act(self, msg) ==
    IF msg.data.type = "LivePriceUpdated"
    THEN LET e == msg.data
             pushed == Append(self.events, TimePricePoint(e.datetime, e.price))
             before_len == Len(pushed)
             events == retain(pushed, e, self.window_millis)
             avg == AveragePriceUpdated(e.pair_id, e.datetime,
                                        FDiv(sum(events), Num(Len(events))))
             active == active_after(self.active, before_len, Len(events))
         IN  [res |-> IF active THEN <<avg>> ELSE <<>>,
              self |-> [self EXCEPT !.events = events, !.active = active]]
    ELSE [res |-> <<>>, self |-> self]

Windows == 0..(MaxTime - 1)
LivePrices == {Num(1), Num(MaxPrice)}

SlidingInputs ==
    {with_data(LivePriceUpdated(t, p)) : t \in 0..MaxTime, p \in LivePrices}
        \cup {with_data(AveragePriceUpdated("BTC/USDT", 0, Num(1)))}

SlidingInit ==
    /\ NoPipeline
    /\ crossover = <<>>
    /\ exchange = <<>>
    /\ calls = <<>>
    /\ \E window_millis \in Windows : sliding = SlidingAverage_new(window_millis)

SlidingAct ==
    /\ Len(calls) < MaxLive
    /\ \E msg \in SlidingInputs :
        LET r == SlidingAverage_act(sliding, msg)
        IN  /\ sliding' = r.self
            /\ calls' = Append(calls, [msg |-> msg, before |-> sliding,
                                       res |-> r.res, after |-> r.self])
    /\ UNCHANGED <<pipelineVars, crossover, exchange>>

SlidingNext == SlidingAct

SlidingSpec == SlidingInit /\ [][SlidingNext]_vars

(***************************************************************************)
(* run_simulation: the event stream of ExchangeSimulation::new_from_file   *)
(* is sent into the source channel, then the chain                         *)
(*     SlidingAverage -> SimpleCrossover -> Trader                         *)
(* is built with the production providers and started.  RunInit is the     *)
(* state when start has returned: three tasks at recv, the whole stream in *)
(* channel 0, the source's sender not dropped yet.  Candle k of the file   *)
(* has time k.  The close of the first candle is fixed: with a window of   *)
(* at most one time step the first candle has left the window before an    *)
(* average is emitted.                                                     *)
(***************************************************************************)
MaxRun == 3

RunFiles ==
    {closes \in UNION {[1..n -> Closes] : n \in 0..MaxRun} :
        closes # <<>> => closes[1] = Num(1)}
RunWindows == {0, 1}

RunCandles(closes) == [k \in 1..Len(closes) |-> Candle(k, closes[k])]

\* create_simulated_exchange(0.001, ..)
RunFee == F64(1, 1000)
\* run_simulation(0.008, ..) of main
RunOffset == F64(1, 125)

RunInit ==
    /\ \E closes \in RunFiles :
          /\ exchange = ExchangeSimulation_new_from_file(
                            RunCandles(closes), Asset("USDT", Num(MaxPrice)),
                            ExchangeOptions(RunFee))
          /\ fresh = Len(closes)
          /\ clock = Len(closes)
    /\ \E window_millis \in RunWindows : sliding = SlidingAverage_new(window_millis)
    /\ crossover = SimpleCrossover_new(RunOffset)
    /\ calls = <<>>
    /\ phase = "run"
    /\ id_provider = UuidProvider
    /\ time_provider = TimeProviderImpl
    /\ processors = [i \in 1..3 |->
                        NewProcessor(i - 1, i, FALSE, UuidProvider, TimeProviderImpl)]
    /\ previous_receiver_channel = 3
    /\ receiver_channel = 4
    /\ sender_channel = 4
    /\ chan = [c \in 0..4 |-> IF c = 0 THEN event_stream(exchange) ELSE <<>>]
    /\ senders = 0..3
    /\ receivers = 0..3
    /\ src = <<>>
    /\ sent = event_stream(exchange)
    /\ minted = 0
    /\ tail = 3
    /\ out = <<>>
    /\ received = [i \in 1..3 |-> <<>>]
    /\ acted = [i \in 1..3 |-> <<>>]
    /\ emitted = [i \in 1..3 |-> <<>>]

\* the actor of stage i on envelope e: the payloads, the actors and the
\* exchange afterwards, and whether act failed (Err or panic)
RunActor(i, e) ==
    IF i = 1
    THEN LET r == SlidingAverage_act(sliding, e)
         IN  [res |-> r.res, sliding |-> r.self, crossover |-> crossover,
              trade |-> <<>>, failed |-> FALSE]
    ELSE IF i = 2
         THEN LET r == SimpleCrossover_act(crossover, e)
              IN  [res |-> r.res, sliding |-> sliding, crossover |-> r.self,
                   trade |-> <<>>, failed |-> FALSE]
         ELSE LET r == Trader_act(exchange, e)
              IN  [res |-> r.res, sliding |-> sliding, crossover |-> crossover,
                   trade |-> <<r>>, failed |-> r.panic \/ is_some(r.err)]

\* one iteration of stage i's loop on an envelope other than Shutdown
RunAct(i) ==
    /\ phase = "run"
    /\ AtRecv(processors[i])
    /\ chan[processors[i].input] # <<>>
    /\ LET e == Head(chan[processors[i].input])
           r == RunActor(i, e)
       IN  /\ sliding' = r.sliding
           /\ crossover' = r.crossover
           /\ IF r.trade = <<>>
              THEN UNCHANGED <<exchange, calls>>
              ELSE /\ exchange' = r.trade[1].exchange
                   /\ calls' = Append(calls,
                          [msg |-> e, assets |-> Reported(exchange),
                           before |-> exchange, after |-> r.trade[1].exchange,
                           res |-> r.res, placed |-> r.trade[1].placed,
                           returned |-> r.trade[1].returned,
                           panic |-> r.trade[1].panic, err |-> r.trade[1].err])
           /\ IF r.failed
              THEN ActFails(i, IF r.trade[1].panic THEN "panic" ELSE "error")
              ELSE ActOk(i, r.res)

RunNext ==
    \/ SourceDrop /\ phase = "run"
    \/ \E i \in Stages : RecvShutdown(i)
    \/ \E i \in Stages : RunAct(i)
    \/ \E i \in Stages : Send(i)
    \/ TailRecv

RunSpec == RunInit /\ [][RunNext]_vars

\* in a run of the simulation no stage meets a closed channel: the steps
\* RecvClosed and SendClosed of Processor::start have no state to fire in
RunChannelsOpen ==
    \A i \in Stages :
        /\ ~(AtRecv(processors[i]) /\ chan[processors[i].input] = <<>>
                /\ processors[i].input \notin senders)
        /\ ~(processors[i].pc \in {"send", "shutdown"}
                /\ processors[i].output \notin receivers)

(***************************************************************************)
(* SimpleCrossover: the band of the claims, by cross-multiplication.       *)
(* x, a and h are fractions with positive denominators.                    *)
(***************************************************************************)
OverUpper(x, a, h) == x.n * a.d * h.d > a.n * (h.d + h.n) * x.d
UnderUpper(x, a, h) == x.n * a.d * h.d < a.n * (h.d + h.n) * x.d
UnderLower(x, a, h) == x.n * a.d * h.d < a.n * (h.d - h.n) * x.d
OverLower(x, a, h) == x.n * a.d * h.d > a.n * (h.d - h.n) * x.d

LiveCalls == {k \in 1..Len(calls) : calls[k].msg.data.type = "LivePriceUpdated"}
Signals(dir) == {k \in 1..Len(calls) : calls[k].res = <<dir>>}
\* i and j are two signals of direction dir with no signal in between
Consecutive(dir, i, j) ==
    /\ i \in Signals(dir)
    /\ j \in Signals(dir)
    /\ i < j
    /\ \A m \in (i + 1)..(j - 1) : calls[m].res = <<>>

\* C11: with a known latest_average a and offset h, act on LivePriceUpdated
\* with price p returns [Buy] if p > a*(1+h) and latest_live is unset or
\* below a*(1+h); otherwise [Sell] if p < a*(1-h) and latest_live is unset or
\* above a*(1-h); otherwise []; never more than one payload; afterwards
\* latest_live = p.
C11_CrossoverDecision ==
    \A k \in LiveCalls :
        LET c == calls[k]
            self == c.before
            p == c.msg.data.price
        IN  is_some(self.latest_average) =>
                LET a == self.latest_average[1]
                    h == self.offset
                    buy == /\ OverUpper(p, a, h)
                           /\ \/ is_none(self.latest_live)
                              \/ UnderUpper(self.latest_live[1], a, h)
                    sell == /\ UnderLower(p, a, h)
                            /\ \/ is_none(self.latest_live)
                               \/ OverLower(self.latest_live[1], a, h)
                IN  /\ c.res = IF buy THEN <<Buy>> ELSE IF sell THEN <<Sell>> ELSE <<>>
                    /\ Len(c.res) <= 1
                    /\ c.after.latest_live = <<p>>

\* a Sell decided against a stored live price, with a band of half the average
C11_Witness ==
    \E k \in LiveCalls :
        /\ calls[k].res = <<Sell>>
        /\ is_some(calls[k].before.latest_live)
        /\ calls[k].before.offset = F64(1, 2)
        /\ \E m \in LiveCalls : calls[m].res = <<Buy>>

\* C12 as stated: between two consecutive signals of the same direction a
\* live price went past the opposite band (below lower between two Buys,
\* above upper between two Sells).
C12_NoRepeatWithoutExcursion ==
    \A i, j \in 1..Len(calls) :
        /\ Consecutive(Buy, i, j) =>
               \E m \in LiveCalls :
                   /\ i < m /\ m < j
                   /\ UnderLower(calls[m].msg.data.price,
                                 calls[m].before.latest_average[1], calls[m].before.offset)
        /\ Consecutive(Sell, i, j) =>
               \E m \in LiveCalls :
                   /\ i < m /\ m < j
                   /\ OverUpper(calls[m].msg.data.price,
                                calls[m].before.latest_average[1], calls[m].before.offset)

\* the live price seen last before call j
LastLiveBefore(j) ==
    LET m == CHOOSE m \in LiveCalls : m < j /\ \A n \in LiveCalls : n < j => n <= m
    IN  calls[m].msg.data.price

\* C12 amended: between two consecutive signals of the same direction, the
\* live price seen last before the second one (the first signal's own price
\* when no live price came in between) lay strictly below the upper band (two
\* Buys) or strictly above the lower band (two Sells) of the average known at
\* the second signal.
C12_NoRepeatOnSameSide ==
    \A i, j \in 1..Len(calls) :
        LET self == calls[j].before
        IN  /\ Consecutive(Buy, i, j) =>
                   /\ self.latest_live = <<LastLiveBefore(j)>>
                   /\ UnderUpper(LastLiveBefore(j), self.latest_average[1], self.offset)
            /\ Consecutive(Sell, i, j) =>
                   /\ self.latest_live = <<LastLiveBefore(j)>>
                   /\ OverLower(LastLiveBefore(j), self.latest_average[1], self.offset)

\* two Buys in a row with a live price inside the band in between
C12_Witness ==
    \E i, j \in 1..Len(calls) :
        /\ Consecutive(Buy, i, j)
        /\ \E m \in LiveCalls : i < m /\ m < j

\* C13: without latest_average a LivePriceUpdated yields no payload and
\* leaves latest_live unset; so the first LivePriceUpdated after the first
\* AveragePriceUpdated yields Buy when strictly above the upper band and Sell
\* when strictly below the lower band, whatever was seen before the average.
C13_NoAnchorBeforeAverage ==
    \A k \in LiveCalls :
        LET c == calls[k]
            self == c.before
            p == c.msg.data.price
        IN  /\ is_none(self.latest_average) =>
                /\ c.res = <<>>
                /\ is_none(c.after.latest_live)
            /\ (/\ is_some(self.latest_average)
                /\ \A m \in LiveCalls : m < k => is_none(calls[m].before.latest_average)) =>
                /\ OverUpper(p, self.latest_average[1], self.offset) => c.res = <<Buy>>
                /\ UnderLower(p, self.latest_average[1], self.offset) => c.res = <<Sell>>

\* a live price above the band before the average, and the first one after
\* the average, above the band as well, yields Buy
C13_Witness ==
    \E k \in LiveCalls :
        /\ k = 3
        /\ calls[1].msg.data.type = "LivePriceUpdated"
        /\ calls[2].msg.data.type = "AveragePriceUpdated"
        /\ calls[1].msg.data.price = calls[3].msg.data.price
        /\ calls[3].res = <<Buy>>

(***************************************************************************)
(* Trader                                                                  *)
(***************************************************************************)
TraderCalls(type) == {k \in 1..Len(calls) : calls[k].msg.data.type = type}
\* the asset a signal trades: the quote asset for Buy, the base asset for Sell
Traded(c) == IF c.msg.data.type = "Buy" THEN c.assets.quote ELSE c.assets.base
Funded(c) == Len(Traded(c)) = 1 /\ Traded(c)[1].amount.n > 0

C15_NoOrderWithoutFunds ==
    \A k \in TraderCalls("Buy") \cup TraderCalls("Sell") :
        LET c == calls[k]
        IN  ~Funded(c) =>
                /\ c.placed = <<>>
                /\ c.res = <<>>
                /\ c.after = c.before
                /\ ~c.panic

\* a Sell on an exchange whose base asset is there with amount 0, and a Buy
\* on an exchange without quote asset
C15_Witness ==
    /\ \E k \in TraderCalls("Sell") :
           /\ Len(calls[k].assets.base) = 1
           /\ calls[k].assets.base[1].amount = Num(0)
    /\ \E k \in TraderCalls("Buy") : calls[k].assets.quote = <<>>

(***************************************************************************)
(* ExchangeSimulation                                                      *)
(***************************************************************************)
OrderCalls(type) == {k \in 1..Len(calls) : calls[k].order.order_type = type}
\* the prices of the stream's price events that carry correlation id c
EventPrices(stream, c) ==
    {stream[k].data.price : k \in {m \in 1..Len(stream) :
        /\ stream[m].data.type = "LivePriceUpdated"
        /\ stream[m].metadata.correlation_id = c}}
\* the price event indexed under c: the last one of the stream that carries c
IndexedPrice(stream, c) ==
    LET at == {m \in 1..Len(stream) : /\ stream[m].data.type = "LivePriceUpdated"
                                      /\ stream[m].metadata.correlation_id = c}
    IN  stream[CHOOSE m \in at : \A n \in at : n <= m].data.price
Known(c) == EventPrices(c.before.event_stream, c.order.correlation_id) # {}
\* r = amount * (1 - fee) / price, by cross-multiplication
IsNetOverPrice(r, amount, fee, price) ==
    r.n * price.n * fee.d * amount.d = amount.n * (fee.d - fee.n) * r.d * price.d
\* r = amount * (1 - fee) * price
IsNetTimesPrice(r, amount, fee, price) ==
    r.n * fee.d * amount.d * price.d = amount.n * (fee.d - fee.n) * price.n * r.d

\* C19: a Buy order with a known correlation id returns
\* order.amount * (1 - fee) / price for the price indexed under the order's
\* correlation id (0 if price <= 0); afterwards fetch_assets shows the quote
\* balance 0 and the base balance the returned amount.
C19_SimulatedBuy ==
    \A k \in OrderCalls("Buy") :
        LET c == calls[k]
            price == IndexedPrice(c.before.event_stream, c.order.correlation_id)
        IN  Known(c) =>
                /\ Len(c.returned) = 1
                /\ IF price.n > 0
                   THEN IsNetOverPrice(c.returned[1], c.order.amount,
                                       c.before.options.fee, price)
                   ELSE c.returned[1] = Num(0)
                /\ c.assets.quote = <<[name |-> "USDT", amount |-> Num(0)]>>
                /\ c.assets.base = <<[name |-> "BTC", amount |-> c.returned[1]]>>

\* a Buy under the second event's id, whose price differs from the first
\* event's, with fee 1/2
C19_Witness ==
    \E k \in OrderCalls("Buy") :
        LET c == calls[k]
        IN  /\ c.order.correlation_id = 0 - 2
            /\ Known(c)
            /\ EventPrices(c.before.event_stream, 0 - 1)
                   # EventPrices(c.before.event_stream, 0 - 2)
            /\ IndexedPrice(c.before.event_stream, 0 - 2) = Num(MaxPrice)
            /\ c.before.options.fee = F64(1, 2)
            /\ c.order.amount = Num(1)

\* C20: a Sell order with a known correlation id returns
\* order.amount * (1 - fee) * price for the price indexed under the order's
\* correlation id; afterwards fetch_assets shows the base balance 0 and the
\* quote balance the returned amount.
C20_SimulatedSell ==
    \A k \in OrderCalls("Sell") :
        LET c == calls[k]
            price == IndexedPrice(c.before.event_stream, c.order.correlation_id)
        IN  Known(c) =>
                /\ Len(c.returned) = 1
                /\ IsNetTimesPrice(c.returned[1], c.order.amount,
                                   c.before.options.fee, price)
                /\ c.assets.base = <<[name |-> "BTC", amount |-> Num(0)]>>
                /\ c.assets.quote = <<[name |-> "USDT", amount |-> c.returned[1]]>>

\* a Sell after a Buy, under an id that two events of different prices share
C20_Witness ==
    \E k \in OrderCalls("Sell") :
        LET c == calls[k]
        IN  /\ k = 2
            /\ calls[1].order.order_type = "Buy"
            /\ Known(c)
            /\ Cardinality(EventPrices(c.before.event_stream, c.order.correlation_id)) = 2
            /\ c.before.options.fee = F64(1, 2)
            /\ c.returned[1].n > 0

(***************************************************************************)
(* SlidingAverage                                                          *)
(***************************************************************************)
\* the observations of the LivePriceUpdated inputs among the first k calls
RECURSIVE Observed(_)
Observed(k) ==
    IF k = 0 THEN <<>>
    ELSE IF calls[k].msg.data.type = "LivePriceUpdated"
         THEN Append(Observed(k - 1), [datetime |-> calls[k].msg.data.datetime,
                                       price |-> calls[k].msg.data.price])
         ELSE Observed(k - 1)
\* a stored observation falls out of the window on call k
FallsOut(k) ==
    \E n \in 1..Len(calls[k].before.events) :
        calls[k].before.events[n].datetime
            < calls[k].msg.data.datetime - calls[k].before.window_millis
WithinWindow(points, t, w) ==
    LET in(pt) == pt.datetime >= t - w
    IN  SelectSeq(points, in)
RECURSIVE Total(_)
Total(points) == IF points = <<>> THEN 0 ELSE points[1].price.n + Total(Tail(points))
InTimeOrder(points) ==
    \A m, n \in 1..Len(points) : m < n => points[m].datetime <= points[n].datetime

\* C16: nothing is emitted for LivePriceUpdated inputs until the first input
\* on which a stored observation falls out of the window; from that input on
\* exactly one AveragePriceUpdated is emitted for every LivePriceUpdated.
C16_EmitsOnceActive ==
    \A k \in LiveCalls :
        IF \E m \in LiveCalls : m <= k /\ FallsOut(m)
        THEN Len(calls[k].res) = 1 /\ calls[k].res[1].type = "AveragePriceUpdated"
        ELSE calls[k].res = <<>>

\* silent, then active on the second input, then an average on a third input
\* on which nothing falls out
C16_Witness ==
    /\ Len(calls) = 3
    /\ LiveCalls = {1, 2, 3}
    /\ FallsOut(2)
    /\ ~FallsOut(3)
    /\ Len(calls[3].after.events) = 2

\* C17 as stated: after a LivePriceUpdated with datetime t the actor retains
\* exactly the observations seen so far whose datetime >= t - window_millis.
C17_RetainsAllSeenInWindow ==
    \A k \in LiveCalls :
        calls[k].after.events
            = WithinWindow(Observed(k), calls[k].msg.data.datetime,
                           calls[k].before.window_millis)

\* C17 amended: the actor retains the observations it still held and the
\* current one whose datetime >= t - window_millis, which are all those seen
\* so far with that property when the datetimes came in non-decreasing order;
\* an emitted AveragePriceUpdated carries the input's pair_id and datetime and
\* the mean of the retained prices.
C17_RetainsHeldInWindow ==
    \A k \in LiveCalls :
        LET c == calls[k]
            e == c.msg.data
            w == c.before.window_millis
            held == Append(c.before.events, [datetime |-> e.datetime, price |-> e.price])
        IN  /\ c.after.events = WithinWindow(held, e.datetime, w)
            /\ InTimeOrder(Observed(k)) =>
                   c.after.events = WithinWindow(Observed(k), e.datetime, w)
            /\ \A n \in 1..Len(c.res) :
                   /\ c.res[n].type = "AveragePriceUpdated"
                   /\ c.res[n].pair_id = e.pair_id
                   /\ c.res[n].datetime = e.datetime
                   /\ c.res[n].price.n * Len(c.after.events)
                          = Total(c.after.events) * c.res[n].price.d

\* an average over two retained observations of different prices, one of
\* them exactly window_millis old, after an older one was dropped
C17_Witness ==
    \E k \in LiveCalls :
        LET c == calls[k]
        IN  /\ k = 3
            /\ Len(c.res) = 1
            /\ Len(c.after.events) = 2
            /\ c.after.events[1].datetime = c.msg.data.datetime - c.before.window_millis
            /\ c.after.events[1].price # c.after.events[2].price
            /\ c.before.window_millis > 0

\* C18: with reporting interval I and window W, N = W/I, no
\* AveragePriceUpdated is emitted for any of the first N LivePriceUpdated
\* inputs.  The actor has a window only; the statement is taken for every
\* interval I from 1 to W.
C18_WarmUpOfNInputs ==
    \A k \in LiveCalls :
        \A I \in 1..calls[k].before.window_millis :
            Cardinality({m \in LiveCalls : m <= k}) <= calls[k].before.window_millis \div I
                => calls[k].res = <<>>

\* C21: place_market_order with an order whose correlation_id is that of no
\* LivePriceUpdated event of the stream fails fatally and leaves the asset
\* balances unchanged.
C21_UnknownCorrelationIdFails ==
    \A k \in 1..Len(calls) :
        LET c == calls[k]
        IN  ~Known(c) =>
                /\ c.panic
                /\ c.returned = <<>>
                /\ c.assets = c.before.assets
                /\ k = Len(calls)

\* an order under the nil id after a Buy that changed the balances
C21_Witness ==
    /\ Len(calls) = 2
    /\ calls[1].order.order_type = "Buy"
    /\ calls[1].returned # <<>>
    /\ calls[1].assets # calls[1].before.assets
    /\ calls[2].order.correlation_id = 0
    /\ calls[2].panic

\* C22: the stream of new_from_file holds, in candle order, one
\* LivePriceUpdated per candle with datetime = time, price = close,
\* id = correlation_id = causation_id, correlation_time = time,
\* correlation_price = close, then exactly one Shutdown as last element; every
\* call of event_stream yields this sequence.
StreamOfCandles(stream, candles) ==
    /\ Len(stream) = Len(candles) + 1
    /\ \A k \in 1..Len(candles) :
           /\ stream[k].data.type = "LivePriceUpdated"
           /\ stream[k].data.datetime = candles[k].time
           /\ stream[k].data.price = candles[k].close
           /\ stream[k].metadata.id = stream[k].metadata.correlation_id
           /\ stream[k].metadata.id = stream[k].metadata.causation_id
           /\ stream[k].metadata.correlation_time = candles[k].time
           /\ stream[k].metadata.correlation_price = candles[k].close
    /\ stream[Len(stream)].data.type = "Shutdown"

StreamCalls == {k \in 1..Len(calls) : "stream" \in DOMAIN calls[k]}

C22_StreamOfFile ==
    \A k \in StreamCalls : StreamOfCandles(calls[k].stream, calls[1].candles)

\* two candles of different time and close, read after an order was placed
C22_Witness ==
    /\ Len(calls) = 3
    /\ Len(calls[1].candles) = 2
    /\ calls[1].candles[1].time # calls[1].candles[2].time
    /\ calls[1].candles[1].close # calls[1].candles[2].close
    /\ StreamCalls = {3}
    /\ calls[2].returned # <<>>

(***************************************************************************)
(* The chain as a whole                                                    *)
(***************************************************************************)
IsPrefix(s, t) == Len(s) <= Len(t) /\ \A k \in 1..Len(s) : s[k] = t[k]

\* s up to and including its first Shutdown (all of s when it has none)
UpToShutdown(s) ==
    IF Shutdowns(s) = {} THEN s
    ELSE SubSeq(s, 1, CHOOSE k \in Shutdowns(s) : \A m \in Shutdowns(s) : k <= m)

\* C23: a chain built with ActorChain::new and no add, once started, delivers
\* on the returned receiver every envelope sent on the source channel,
\* unchanged and in the same order, Shutdown included: what the consumer has
\* taken and what waits in the returned receiver are together what was sent.
C23_EmptyChainForwards ==
    (phase = "run" /\ processors = <<>>) => out \o chan[tail] = sent

\* both envelopes of a stream that ends in Shutdown have been taken
C23_Witness ==
    /\ phase = "run"
    /\ processors = <<>>
    /\ src = <<>>
    /\ Len(out) = 2
    /\ ~Sentinel(out[1])
    /\ Sentinel(out[2])

\* every call of act so far, in every stage, returned the empty list
AllIdentity ==
    \A i \in Stages : \A a \in 1..Len(acted[i]) :
        acted[i][a].ok /\ acted[i][a].payloads = <<>>

\* C24: a chain of N >= 1 stages whose actors return an empty list on every
\* input (is_filter = false) delivers at its tail exactly the source's stream
\* up to and including the first Shutdown: what the consumer has taken is
\* always a prefix of it, and all of it once every stage has ended and the
\* tail is drained.
C24_IdentityChainReproduces ==
    (BuiltByChain /\ Stages # {} /\ AllIdentity) =>
        /\ IsPrefix(out \o chan[tail], UpToShutdown(Stream))
        /\ ((\A i \in Stages : Terminated(i)) /\ chan[tail] = <<>>) =>
               out = UpToShutdown(Stream)

\* two stages that each acted once, on a stream of two envelopes, all taken
C24_Witness ==
    /\ BuiltByChain
    /\ Len(processors) = 2
    /\ AllIdentity
    /\ \A i \in Stages : Len(acted[i]) = 1 /\ processors[i].pc = "done"
    /\ Len(out) = 2
    /\ out = Stream

\* C25: with is_filter = true, for every non-Shutdown input a stage emits only
\* the envelopes newly created from the payloads of act, in returned order,
\* and no copy of the input.
C25_FilterDropsInput ==
    \A i \in Stages : \A a \in 1..Len(acted[i]) :
        LET p == processors[i]
            n == acted[i][a].on
            r == acted[i][a].payloads
            mine == EmittedFor(i, n)
        IN  (p.is_filter /\ acted[i][a].ok) =>
               /\ Len(mine) <= Len(r)
               /\ \A j \in 1..Len(mine) :
                     /\ mine[j].k = j
                     /\ mine[j].msg.data = r[j]
                     /\ mine[j].msg.metadata.causation_id = received[i][n].metadata.id
               /\ Through(i, n) => Len(mine) = Len(r)
               /\ Len(SelectSeq(emitted[i], LAMBDA x : ~Sentinel(x.msg)))
                      <= Len(Created(i))

\* a filter that was given two payloads for its first input and none for
\* its second
C25_Witness ==
    \E i \in Stages :
        /\ processors[i].is_filter
        /\ Len(acted[i]) = 2
        /\ acted[i][1].payloads = <<Buy, Sell>>
        /\ acted[i][2].ok /\ acted[i][2].payloads = <<>>
        /\ Through(i, 2)
        /\ Len(emitted[i]) = 2

\* stage i is at recv on an empty input channel all of whose senders are gone
InputClosed(i) ==
    /\ phase = "run"
    /\ processors[i].pc = "recv"
    /\ chan[processors[i].input] = <<>>
    /\ processors[i].input \notin senders

\* C27: a stage whose input channel is closed before it has received
\* Shutdown fails fatally once its inbox is empty: its next step is the
\* panic, it does not return normally and sends nothing more.
C27_ClosedInputIsFatal ==
    [][\A i \in Stages :
          /\ InputClosed(i) =>
                /\ processors'[i].pc \in {"recv", "panic"}
                /\ emitted'[i] = emitted[i]
          /\ processors[i].pc = "panic" =>
                /\ processors'[i] = processors[i]
                /\ emitted'[i] = emitted[i]]_vars

\* a stage that took one envelope, no Shutdown, and panicked on the closed
\* input
C27_Witness ==
    \E i \in Stages :
        /\ processors[i].pc = "panic"
        /\ processors[i].input \notin senders
        /\ processors[i].output \in receivers
        /\ Len(received[i]) = 1
        /\ ~Sentinel(received[i][1])
        /\ Len(emitted[i]) = 1

\* C28: when fetch_assets or place_market_order returns an error while the
\* Trader handles a Buy or Sell, act returns that error and no Bought or Sold.
C28_ExchangeErrorPropagates ==
    \A k \in TraderCalls("Buy") \cup TraderCalls("Sell") :
        LET c == calls[k]
            faulty == c.before.kind = "FaultyExchange"
            fetch == IF faulty THEN c.before.fetch_error ELSE <<>>
            place == IF faulty /\ c.placed # <<>> THEN c.before.place_error ELSE <<>>
        IN  /\ fetch # <<>> => c.err = fetch /\ c.res = <<>> /\ c.placed = <<>>
            /\ (fetch = <<>> /\ place # <<>>) => c.err = place /\ c.res = <<>>
            /\ (fetch = <<>> /\ place = <<>>) => c.err = <<>>

\* one call in which place_market_order failed on an order for a positive
\* balance, among a Buy and a Sell given to the same Trader
C28_Witness ==
    /\ Len(calls) = 2
    /\ exchange.kind = "FaultyExchange"
    /\ \E k \in 1..2 :
          /\ calls[k].placed # <<>>
          /\ calls[k].err = <<"place_market_order failed">>
    /\ TraderCalls("Buy") # {}
    /\ TraderCalls("Sell") # {}

\* C29: for every envelope whose payload is neither Buy nor Sell, act returns
\* no payload and makes no call that changes the exchange.
C29_OtherPayloadsIgnored ==
    \A k \in 1..Len(calls) :
        LET c == calls[k]
        IN  c.msg.data.type \notin {"Buy", "Sell"} =>
                /\ c.res = <<>>
                /\ c.placed = <<>>
                /\ c.after = c.before
                /\ is_none(c.err)
                /\ ~c.panic

\* a Bought and a LivePriceUpdated given to a Trader whose exchange holds a
\* positive quote balance
C29_Witness ==
    /\ TraderCalls("Bought") # {}
    /\ TraderCalls("LivePriceUpdated") # {}
    /\ exchange.assets.quote # <<>>
    /\ exchange.assets.quote[1].amount.n > 0

\* C26: in the chain SlidingAverage -> SimpleCrossover -> Trader no stage
\* creates a Shutdown: what a stage has put on its output channel, and what
\* the consumer has taken from the tail, holds no more Shutdown envelopes than
\* the source injected, and each of them is an envelope of the source that
\* the stage forwarded, not one it built.
SourceShutdowns == {sent[k] : k \in Shutdowns(sent)}

C26_StagesNeverCreateShutdown ==
    /\ \A i \in Stages :
          /\ Cardinality(Shutdowns(Msgs(emitted[i]))) <= Cardinality(Shutdowns(sent))
          /\ \A k \in Shutdowns(Msgs(emitted[i])) :
                /\ emitted[i][k].k = 0
                /\ emitted[i][k].msg \in SourceShutdowns
    /\ \A c \in DOMAIN chan : \A k \in Shutdowns(chan[c]) :
          chan[c][k] \in SourceShutdowns
    /\ Cardinality(Shutdowns(out)) <= Cardinality(Shutdowns(sent))
    /\ \A k \in Shutdowns(out) : out[k] \in SourceShutdowns

\* the Shutdown of the source has left the three stages, each of which
\* created envelopes: an average, a Buy and a Bought are at the tail
C26_Witness ==
    /\ Len(processors) = 3
    /\ sliding # <<>>
    /\ Shutdowns(out) # {}
    /\ \A i \in Stages : Len(Created(i)) > 0
    /\ \E k \in 1..Len(calls) : calls[k].placed # <<>>

\* C31: within a stage act is called exactly once for every envelope received
\* before the first Shutdown, in the order received; a call and the sends of
\* its outputs are complete before the next envelope is received; nothing is
\* received after the first Shutdown.
SentFor(i, n) ==
    (IF processors[i].is_filter THEN 0 ELSE 1) + Len(acted[i][n].payloads)

C31_ActOncePerEnvelopeInOrder ==
    \A i \in Stages :
        /\ \A k \in Shutdowns(received[i]) : k = Len(received[i])
        /\ Len(acted[i]) = Len(received[i]) - Cardinality(Shutdowns(received[i]))
        /\ \A k \in 1..Len(acted[i]) : acted[i][k].on = k
        /\ \A n \in 1..(Len(received[i]) - 1) :
              /\ acted[i][n].ok
              /\ Len(EmittedFor(i, n)) = SentFor(i, n)
        /\ \A x, y \in 1..Len(emitted[i]) :
              x < y => emitted[i][x].cause <= emitted[i][y].cause

\* a stage that acted on three envelopes, creating envelopes from one of
\* them, then took the Shutdown and ended
C31_Witness ==
    \E i \in Stages :
        /\ Len(acted[i]) >= 3
        /\ \E n \in 1..Len(acted[i]) : acted[i][n].payloads # <<>>
        /\ Shutdowns(received[i]) # {}
        /\ processors[i].pc = "done"

\* C32: in a chain every envelope a stage sends is what the next stage
\* receives, in order, and the next stage acts on each of them but the
\* Shutdown, passed-through and created alike.  With n stages running
\* MockActor, which returns one payload per input, a stage that has ended on
\* the Shutdown has sent 2^i envelopes for every source envelope before the
\* Shutdown, and at the tail every envelope is immediately followed by the
\* one the last stage created from it.
BeforeShutdown(s) == Len(UpToShutdown(s)) - (IF Shutdowns(s) = {} THEN 0 ELSE 1)

C32_EachStageDoubles ==
    (BuiltByChain /\ Stages # {}) =>
        /\ \A i \in Stages :
              /\ Msgs(emitted[i]) =
                    (IF i < Len(processors) THEN received[i + 1] ELSE out)
                        \o chan[processors[i].output]
              /\ processors[i].pc = "done" =>
                    Len(emitted[i]) = (2 ^ i) * BeforeShutdown(sent) + 1
        /\ LET last == emitted[Len(processors)]
           IN  \A y \in 1..Len(last) :
                  IF last[y].k = 0
                  THEN Sentinel(last[y].msg)
                          \/ (y = Len(last) /\ processors[Len(processors)].pc = "send")
                          \/ (y < Len(last) /\ last[y + 1].k = 1
                                /\ last[y + 1].cause = last[y].cause
                                /\ last[y + 1].msg.metadata.causation_id
                                       = last[y].msg.metadata.id)
                  ELSE y > 1 /\ last[y - 1].k = 0

\* the run of actor_chain_calls_multiple_internal_actor: two stages, one Sell
\* and the Shutdown, four envelopes and the Shutdown taken at the tail
C32_Witness ==
    /\ BuiltByChain
    /\ Len(processors) = 2
    /\ sent = <<with_data(Sell), with_data(Shutdown)>>
    /\ Len(out) = 5
    /\ \A i \in Stages : processors[i].pc = "done"

\* C33: on AveragePriceUpdated with price a SimpleCrossover returns no
\* payload, sets latest_average to a and leaves latest_live and offset as
\* they were; on a payload that is neither LivePriceUpdated nor
\* AveragePriceUpdated it returns no payload and its state is unchanged.
C33_AverageOnlyStoresAverage ==
    \A k \in 1..Len(calls) :
        LET c == calls[k]
        IN  /\ c.msg.data.type = "AveragePriceUpdated" =>
                  /\ c.res = <<>>
                  /\ c.after.latest_average = <<c.msg.data.price>>
                  /\ c.after.latest_live = c.before.latest_live
                  /\ c.after.offset = c.before.offset
            /\ c.msg.data.type \notin {"LivePriceUpdated", "AveragePriceUpdated"} =>
                  /\ c.res = <<>>
                  /\ c.after = c.before

\* an average that replaces another one while a live price is held, and a
\* Sell given to that actor
C33_Witness ==
    \E k, m \in 1..Len(calls) :
        /\ calls[k].msg.data.type = "AveragePriceUpdated"
        /\ is_some(calls[k].before.latest_live)
        /\ is_some(calls[k].before.latest_average)
        /\ calls[k].before.latest_average # <<calls[k].msg.data.price>>
        /\ calls[m].msg.data.type = "Sell"
        /\ is_some(calls[m].before.latest_average)

\* C34: ExchangeSimulation::place_market_order does not look at the balances:
\* an order with a known correlation id succeeds whatever its amount and
\* whatever is held, and two orders of the same type and amount at the same
\* indexed price return the same amount and leave the same balances, whatever
\* was held before each.
SameTerms(c, d) ==
    /\ c.order.order_type = d.order.order_type
    /\ c.order.amount = d.order.amount
    /\ IndexedPrice(c.before.event_stream, c.order.correlation_id)
          = IndexedPrice(d.before.event_stream, d.order.correlation_id)

C34_BalancesNeverChecked ==
    /\ \A k \in 1..Len(calls) :
          Known(calls[k]) => ~calls[k].panic /\ Len(calls[k].returned) = 1
    /\ \A k, m \in 1..Len(calls) :
          (Known(calls[k]) /\ Known(calls[m]) /\ SameTerms(calls[k], calls[m])) =>
              /\ calls[k].returned = calls[m].returned
              /\ calls[k].assets = calls[m].assets

\* a Sell placed while only quote is held, which overwrites the quote
\* balance, and the same order once more on the balances it left
C34_Witness ==
    /\ Len(calls) = 2
    /\ calls[1].order.order_type = "Sell"
    /\ is_none(calls[1].before.assets.base)
    /\ calls[1].returned # <<>>
    /\ calls[1].assets.quote # calls[1].before.assets.quote
    /\ calls[2].order = calls[1].order
    /\ calls[2].returned # <<>>

\* C39: once place_market_order has been called on an ExchangeSimulation, and
\* as long as every call succeeded, both the base and the quote asset are
\* present and one of the two balances is 0: the quote balance after a Buy,
\* the base balance after a Sell.
AllPlaced == calls # <<>> /\ \A k \in 1..Len(calls) : ~calls[k].panic

C39_OneBalanceIsZero ==
    AllPlaced =>
        LET held == fetch_assets(exchange)
            latest == calls[Len(calls)].order.order_type
        IN  /\ is_some(held.base)
            /\ is_some(held.quote)
            /\ latest = "Buy" => held.quote[1].amount = Num(0)
            /\ latest = "Sell" => held.base[1].amount = Num(0)

\* a Buy and then a Sell, both placed, each leaving a balance above 0 in the
\* asset received
C39_Witness ==
    /\ AllPlaced
    /\ Len(calls) = 2
    /\ calls[1].order.order_type = "Buy"
    /\ calls[1].assets.base[1].amount.n > 0
    /\ calls[2].order.order_type = "Sell"
    /\ exchange.assets.quote[1].amount.n > 0

\* C40: the legacy Strategy stage leaves its start loop when it receives
\* Shutdown: once a Shutdown is among the messages it received, the stage is
\* sending that message on or has returned, and it receives nothing more.
C40_LegacyExitsOnShutdown ==
    \A i \in Stages :
        Shutdowns(received[i]) # {} =>
            /\ Shutdowns(received[i]) = {Len(received[i])}
            /\ processors[i].pc \in {"send", "done"}

\* C35: a Trader over an ExchangeSimulation that starts with a positive quote
\* balance and no base, given Buy and Sell signals in any order (so in every
\* order the chain SlidingAverage -> SimpleCrossover can deliver them), never
\* executes two buys without a sell between them nor two sells without a buy
\* between them, and its first trade is a buy: the Bought and Sold payloads
\* it returns, which its stage sends to the tail in that order, alternate
\* and start with Bought.
Executions(s) == SelectSeq(s, LAMBDA d : d.type \in {"Bought", "Sold"})

RECURSIVE Returned(_)
Returned(cs) ==
    IF cs = <<>> THEN <<>> ELSE cs[1].res \o Returned(Tail(cs))

Alternating(s) ==
    /\ s # <<>> => s[1].type = "Bought"
    /\ \A k \in 1..(Len(s) - 1) : s[k].type # s[k + 1].type

StartsWithQuoteOnly(c) ==
    /\ c.before.kind = "ExchangeSimulation"
    /\ is_none(c.before.assets.base)
    /\ is_some(c.before.assets.quote)
    /\ c.before.assets.quote[1].amount.n > 0

SourceTicks ==
    {sent[k].metadata.correlation_id :
        k \in {m \in 1..Len(sent) : sent[m].data.type = "LivePriceUpdated"}}

C36_OrdersCarrySourceTick ==
    /\ \A k \in 1..Len(calls) :
          /\ \A o \in 1..Len(calls[k].placed) :
                calls[k].placed[o].correlation_id \in SourceTicks
          /\ ~calls[k].panic
    /\ \A i \in Stages : processors[i].pc # "panic"

\* an order placed under the id of the third candle, whose price differs
\* from the second candle's, and filled
C36_Witness ==
    /\ Len(processors) = 3
    /\ \E k \in 1..Len(calls) :
          /\ calls[k].placed # <<>>
          /\ calls[k].placed[1].correlation_id = 0 - 3
          /\ calls[k].returned # <<>>
          /\ calls[k].returned[1].n > 0

\* C38: the crossover stage receives the LivePriceUpdated of a tick right
\* before the AveragePriceUpdated the sliding-average stage derived from that
\* tick, so a Buy or Sell created for a tick is decided against an average
\* derived from a strictly earlier tick.
AveragesBefore(i, n) ==
    {k \in 1..(n - 1) : received[i][k].data.type = "AveragePriceUpdated"}

C38_LiveBeforeItsAverage ==
    Len(processors) >= 2 =>
        /\ \A y \in 1..Len(received[2]) :
              received[2][y].data.type = "AveragePriceUpdated" =>
                  /\ y > 1
                  /\ received[2][y - 1].data.type = "LivePriceUpdated"
                  /\ received[2][y - 1].metadata.id
                        = received[2][y].metadata.correlation_id
                  /\ received[2][y - 1].data.datetime = received[2][y].data.datetime
        /\ \A x \in 1..Len(emitted[2]) :
              emitted[2][x].k > 0 =>
                  LET n == emitted[2][x].cause
                  IN  /\ received[2][n].data.type = "LivePriceUpdated"
                      /\ AveragesBefore(2, n) # {}
                      /\ \A a \in AveragesBefore(2, n) :
                            received[2][a].data.datetime < received[2][n].data.datetime

\* the crossover stage sent a Buy for the third tick after it had received
\* the average of the second
C38_Witness ==
    /\ Len(processors) = 3
    /\ sliding # <<>>
    /\ \E x \in 1..Len(emitted[2]) :
          /\ emitted[2][x].k > 0
          /\ emitted[2][x].msg.data = Buy
          /\ received[2][emitted[2][x].cause].data.datetime = 3
          /\ AveragesBefore(2, emitted[2][x].cause) # {}

\* C37: the envelopes delivered at the tail do not depend on how the stage
\* tasks are interleaved.  For a chain of MockActor stages with the counting
\* id and time providers, what the tail has delivered is in every reachable
\* state a prefix of the one sequence obtained by running the stages one
\* after the other on the source stream, and all of it once every stage has
\* ended and the tail is drained.
RECURSIVE StageAlone(_, _)
StageAlone(s, n) ==
    IF s = <<>> THEN <<>>
    ELSE IF Sentinel(s[1]) THEN <<s[1]>>
         ELSE <<s[1], [data |-> Buy,
                       metadata |-> [DefaultMetaData EXCEPT
                           !.id = n, !.creation_time = n,
                           !.correlation_id = s[1].metadata.correlation_id,
                           !.causation_id = s[1].metadata.id]]>>
                  \o StageAlone(Tail(s), n + 1)

RECURSIVE ChainAlone(_, _)
ChainAlone(s, stages) ==
    IF stages = 0 THEN s ELSE StageAlone(ChainAlone(s, stages - 1), 0)

C37_TailIndependentOfSchedule ==
    (BuiltByChain /\ Stages # {}) =>
        /\ IsPrefix(out \o chan[tail], ChainAlone(Stream, Len(processors)))
        /\ Finished => out = ChainAlone(Stream, Len(processors))

\* a finished run of two stages on a Sell and the Shutdown, whose tail is the
\* sequence of the stages run alone
C37_Witness ==
    /\ BuiltByChain
    /\ Len(processors) = 2
    /\ Finished
    /\ Len(out) = 5
    /\ out[4].metadata.id = 1
    /\ out = ChainAlone(sent, 2)

====
